---- MODULE Spec2Model ----
(***************************************************************************)
(* Colorix WhatsApp service agent: the generation gateway (app/llm.py),    *)
(* the retrieval engine (app/retriever.py), the turn pipeline              *)
(* (app/agent.py, app/main.py) and the store it reads and writes           *)
(* (app/database.py).                                                      *)
(***************************************************************************)
EXTENDS Naturals, Integers, Sequences, FiniteSets, TLC

VARIABLES settings, llm, rt, documents, env, conversations, session,
          escalations, turn, loop, started, staff

vars == <<settings, llm, rt, documents, env, conversations, session,
          escalations, turn, loop, started, staff>>

(***************************************************************************)
(* Values                                                                  *)
(***************************************************************************)
None == "None"
Raise == "RAISE"
NoText == "<no text>"

\* The two configured providers (llm.py: get_gemini, get_groq).
Providers == {"gemini", "groq"}

\* What a provider invocation can produce: a text, or an exception.
ModelTexts ==
    { "  Escalate: customer asks for a person<LF>",
      "We print business cards. For a quote call +237 696 26 26 56",
      "Would you like to speak with our team? Reply *yes*" }
ProviderOutcomes == ModelTexts \cup {Raise}

\* Message lists handed to the gateway by a direct caller.
MessageLists == {"msgs-A", "msgs-B"}

(***************************************************************************)
(* app/llm.py: invoke_with_fallback                                        *)
(***************************************************************************)
\* use_groq = (prefer or settings.primary_llm) == "groq"
UseGroq(prefer, primary_llm) ==
    (IF prefer \in {None, ""} THEN primary_llm ELSE prefer) = "groq"

\* primary = get_groq() if use_groq else get_gemini()
PrimaryOf(use_groq) == IF use_groq THEN "groq" ELSE "gemini"

\* A fallback that names the primary again (a retry of the same provider).
FallbackOfSameProvider(use_groq) == IF use_groq THEN "groq" ELSE "gemini"

\* fallback = get_gemini if use_groq else get_groq()
\* With use_groq the fallback is the factory function get_gemini itself, not a
\* client: it has no ainvoke.
FallbackOf(use_groq) == IF use_groq THEN "function get_gemini" ELSE "groq"

\* Entering invoke_with_fallback up to `await primary.ainvoke(messages)`.
GwBegin(prefer, messages, primary_llm) ==
    LET use_groq == UseGroq(prefer, primary_llm) IN
    [ pc       |-> "primary",
      prefer   |-> prefer,
      use_groq |-> use_groq,
      primary  |-> PrimaryOf(use_groq),
      fallback |-> FallbackOf(use_groq),
      messages |-> messages,
      calls    |-> << [provider |-> PrimaryOf(use_groq), messages |-> messages] >>,
      outcomes |-> << >>,
      result   |-> NoText ]

\* primary.ainvoke completes: return resp.content, or the except block runs
\* `await fallback.ainvoke(messages)`.
GwPrimaryDone(gw, out) ==
    IF out # Raise
    THEN [gw EXCEPT !.pc = "returned", !.result = out, !.outcomes = Append(@, out)]
    ELSE IF gw.fallback \in Providers
         THEN [gw EXCEPT !.pc = "fallback",
                         !.outcomes = Append(@, out),
                         !.calls = Append(@, [provider |-> gw.fallback,
                                              messages |-> gw.messages])]
         \* AttributeError: 'function' object has no attribute 'ainvoke'
         ELSE [gw EXCEPT !.pc = "raised", !.outcomes = Append(@, out)]

\* A gateway that answers with the empty text when the fallback raises.
GwFallbackSwallow(gw, out) ==
    IF out # Raise
    THEN [gw EXCEPT !.pc = "returned", !.result = out, !.outcomes = Append(@, out)]
    ELSE [gw EXCEPT !.pc = "returned", !.result = "", !.outcomes = Append(@, out)]

\* fallback.ainvoke completes: return resp.content, or the exception leaves
\* invoke_with_fallback.
GwFallbackDone(gw, out) ==
    IF out # Raise
    THEN [gw EXCEPT !.pc = "returned", !.result = out, !.outcomes = Append(@, out)]
    ELSE [gw EXCEPT !.pc = "raised", !.outcomes = Append(@, out)]

GwIdle ==
    [ pc |-> "idle", prefer |-> None, use_groq |-> FALSE, primary |-> "gemini",
      fallback |-> "groq", messages |-> "msgs-A", calls |-> << >>,
      outcomes |-> << >>, result |-> NoText ]

GwEnded(gw) == gw.pc \in {"returned", "raised"}

(***************************************************************************)
(* Texts: the attributes of the strings the code inspects                  *)
(***************************************************************************)
LongText == "<rephrasing of 300 characters>"
AlmostLongText == "<rephrasing of 299 characters>"
PaddedRephrasing == "  business card printing price <LF>"

\* The characters of each text of the model, one element per code point
\* ("LF" is the line feed, "U+00E0" the code point U+00E0).
Chars(s) ==
    CASE s = "Do you print business cards?" ->
           <<"D", "o", " ", "y", "o", "u", " ", "p", "r", "i", "n", "t", " ",
           "b", "u", "s", "i", "n", "e", "s", "s", " ", "c", "a", "r", "d",
           "s", "?">>
      [] s = "I want to speak to a manager" ->
           <<"I", " ", "w", "a", "n", "t", " ", "t", "o", " ", "s", "p", "e",
           "a", "k", " ", "t", "o", " ", "a", " ", "m", "a", "n", "a", "g",
           "e", "r">>
      [] s = "yes" ->
           <<"y", "e", "s">>
      [] s = "oui merci" ->
           <<"o", "u", "i", " ", "m", "e", "r", "c", "i">>
      [] s = "ESCALATE" ->
           <<"E", "S", "C", "A", "L", "A", "T", "E">>
      [] s = "  Escalate: customer asks for a person<LF>" ->
           <<" ", " ", "E", "s", "c", "a", "l", "a", "t", "e", ":", " ", "c",
           "u", "s", "t", "o", "m", "e", "r", " ", "a", "s", "k", "s", " ",
           "f", "o", "r", " ", "a", " ", "p", "e", "r", "s", "o", "n", "LF">>
      [] s = "Escalate: customer asks for a person" ->
           <<"E", "s", "c", "a", "l", "a", "t", "e", ":", " ", "c", "u", "s",
           "t", "o", "m", "e", "r", " ", "a", "s", "k", "s", " ", "f", "o",
           "r", " ", "a", " ", "p", "e", "r", "s", "o", "n">>
      [] s = "We print business cards. For a quote call +237 696 26 26 56" ->
           <<"W", "e", " ", "p", "r", "i", "n", "t", " ", "b", "u", "s", "i",
           "n", "e", "s", "s", " ", "c", "a", "r", "d", "s", ".", " ", "F",
           "o", "r", " ", "a", " ", "q", "u", "o", "t", "e", " ", "c", "a",
           "l", "l", " ", "+", "2", "3", "7", " ", "6", "9", "6", " ", "2",
           "6", " ", "2", "6", " ", "5", "6">>
      [] s = "Would you like to speak with our team? Reply *yes*" ->
           <<"W", "o", "u", "l", "d", " ", "y", "o", "u", " ", "l", "i", "k",
           "e", " ", "t", "o", " ", "s", "p", "e", "a", "k", " ", "w", "i",
           "t", "h", " ", "o", "u", "r", " ", "t", "e", "a", "m", "?", " ",
           "R", "e", "p", "l", "y", " ", "*", "y", "e", "s", "*">>
      [] s = "<handoff en>" ->
           <<"I", "'", "m", " ", "c", "o", "n", "n", "e", "c", "t", "i", "n",
           "g", " ", "y", "o", "u", " ", "w", "i", "t", "h", " ", "a", " ",
           "C", "o", "l", "o", "r", "i", "x", " ", "t", "e", "a", "m", " ",
           "m", "e", "m", "b", "e", "r", " ", "r", "i", "g", "h", "t", " ",
           "n", "o", "w", ".", " ", "U+1F64F", "LF", "LF", "O", "u", "r",
           " ", "s", "t", "a", "f", "f", " ", "w", "i", "l", "l", " ", "r",
           "e", "a", "c", "h", " ", "o", "u", "t", " ", "t", "o", " ", "y",
           "o", "u", " ", "s", "h", "o", "r", "t", "l", "y", " ", "o", "n",
           " ", "W", "h", "a", "t", "s", "A", "p", "p", ".", "LF", "Y", "o",
           "u", " ", "c", "a", "n", " ", "a", "l", "s", "o", " ", "c", "a",
           "l", "l", " ", "u", "s", " ", "d", "i", "r", "e", "c", "t", "l",
           "y", ":", " ", "*", "+", "2", "3", "7", " ", "6", "9", "6", " ",
           "2", "6", " ", "2", "6", " ", "5", "6", "*">>
      [] s = "<handoff fr>" ->
           <<"J", "e", " ", "v", "o", "u", "s", " ", "c", "o", "n", "n", "e",
           "c", "t", "e", " ", "a", "v", "e", "c", " ", "u", "n", " ", "m",
           "e", "m", "b", "r", "e", " ", "d", "e", " ", "l", "'", "U+00E9",
           "q", "u", "i", "p", "e", " ", "C", "o", "l", "o", "r", "i", "x",
           ".", " ", "U+1F64F", "LF", "LF", "N", "o", "t", "r", "e", " ",
           "U+00E9", "q", "u", "i", "p", "e", " ", "v", "o", "u", "s", " ",
           "c", "o", "n", "t", "a", "c", "t", "e", "r", "a", " ", "b", "i",
           "e", "n", "t", "U+00F4", "t", " ", "s", "u", "r", " ", "W", "h",
           "a", "t", "s", "A", "p", "p", ".", "LF", "V", "o", "u", "s", " ",
           "p", "o", "u", "v", "e", "z", " ", "a", "u", "s", "s", "i", " ",
           "a", "p", "p", "e", "l", "e", "r", " ", ":", " ", "*", "+", "2",
           "3", "7", " ", "6", "9", "6", " ", "2", "6", " ", "2", "6", " ",
           "5", "6", "*">>
      [] s = "<apology>" ->
           <<"U+26A0", "U+FE0F", " ", "S", "o", "m", "e", "t", "h", "i", "n",
           "g", " ", "w", "e", "n", "t", " ", "w", "r", "o", "n", "g", ".",
           " ", "P", "l", "e", "a", "s", "e", " ", "c", "a", "l", "l", ":",
           " ", "*", "+", "2", "3", "7", " ", "6", "9", "6", " ", "2", "6",
           " ", "2", "6", " ", "5", "6", "*">>
      [] s = "business card printing price" ->
           <<"b", "u", "s", "i", "n", "e", "s", "s", " ", "c", "a", "r", "d",
           " ", "p", "r", "i", "n", "t", "i", "n", "g", " ", "p", "r", "i",
           "c", "e">>
      [] s = "  business card printing price <LF>" ->
           <<" ", " ", "b", "u", "s", "i", "n", "e", "s", "s", " ", "c", "a",
           "r", "d", " ", "p", "r", "i", "n", "t", "i", "n", "g", " ", "p",
           "r", "i", "c", "e", " ", "LF">>
      [] s = "" ->
           <<>>
      [] s = "   " ->
           <<" ", " ", " ">>
      [] s = "do you print business cards?" ->
           <<"d", "o", " ", "y", "o", "u", " ", "p", "r", "i", "n", "t", " ",
           "b", "u", "s", "i", "n", "e", "s", "s", " ", "c", "a", "r", "d",
           "s", "?">>
      [] s = LongText -> [i \in 1..300 |-> "x"]
      [] s = AlmostLongText -> [i \in 1..299 |-> "x"]

\* The texts above.
AllTexts ==
    { "Do you print business cards?", "I want to speak to a manager", "yes",
      "oui merci", "ESCALATE", "  Escalate: customer asks for a person<LF>",
      "Escalate: customer asks for a person",
      "We print business cards. For a quote call +237 696 26 26 56",
      "Would you like to speak with our team? Reply *yes*", "<handoff en>",
      "<handoff fr>", "<apology>", "business card printing price",
      "  business card printing price <LF>", "", "   ",
      "do you print business cards?", LongText, AlmostLongText }

\* str.lower(), one character
LowerChar(c) ==
    CASE c = "A" -> "a" [] c = "B" -> "b" [] c = "C" -> "c"
    [] c = "D" -> "d" [] c = "E" -> "e" [] c = "F" -> "f"
    [] c = "G" -> "g" [] c = "H" -> "h" [] c = "I" -> "i"
    [] c = "J" -> "j" [] c = "K" -> "k" [] c = "L" -> "l"
    [] c = "M" -> "m" [] c = "N" -> "n" [] c = "O" -> "o"
    [] c = "P" -> "p" [] c = "Q" -> "q" [] c = "R" -> "r"
    [] c = "S" -> "s" [] c = "T" -> "t" [] c = "U" -> "u"
    [] c = "V" -> "v" [] c = "W" -> "w" [] c = "X" -> "x"
    [] c = "Y" -> "y" [] c = "Z" -> "z" [] OTHER -> c

\* str.upper(), one character
UpperChar(c) ==
    CASE c = "a" -> "A" [] c = "b" -> "B" [] c = "c" -> "C"
    [] c = "d" -> "D" [] c = "e" -> "E" [] c = "f" -> "F"
    [] c = "g" -> "G" [] c = "h" -> "H" [] c = "i" -> "I"
    [] c = "j" -> "J" [] c = "k" -> "K" [] c = "l" -> "L"
    [] c = "m" -> "M" [] c = "n" -> "N" [] c = "o" -> "O"
    [] c = "p" -> "P" [] c = "q" -> "Q" [] c = "r" -> "R"
    [] c = "s" -> "S" [] c = "t" -> "T" [] c = "u" -> "U"
    [] c = "v" -> "V" [] c = "w" -> "W" [] c = "x" -> "X"
    [] c = "y" -> "Y" [] c = "z" -> "Z" [] c = "U+00E0" -> "U+00C0"
    [] c = "U+00E9" -> "U+00C9" [] c = "U+00F4" -> "U+00D4" [] OTHER -> c

explicit_human_keywords ==
    << <<"s", "p", "e", "a", "k", " ", "t", "o">>,
       <<"t", "a", "l", "k", " ", "t", "o">>,
       <<"r", "e", "a", "l", " ", "p", "e", "r", "s", "o", "n">>,
       <<"h", "u", "m", "a", "n", " ", "a", "g", "e", "n", "t">>,
       <<"s", "p", "e", "a", "k", " ", "w", "i", "t", "h">>,
       <<"t", "a", "l", "k", " ", "w", "i", "t", "h">>,
       <<"s", "t", "a", "f", "f">>,
       <<"m", "a", "n", "a", "g", "e", "r">>,
       <<"p", "e", "r", "s", "o", "n", "n", "e", "l">>,
       <<"r", "e", "p", "r", "e", "s", "e", "n", "t", "a", "t", "i", "v", "e">>,
       <<"p", "a", "r", "l", "e", "r", " ", "U+00E0">>,
       <<"u", "n", " ", "a", "g", "e", "n", "t">>,
       <<"r", "e", "s", "p", "o", "n", "s", "a", "b", "l", "e">>,
       <<"u", "n", "e", " ", "p", "e", "r", "s", "o", "n", "n", "e">> >>

offer_phrases ==
    << <<"w", "o", "u", "l", "d", " ", "y", "o", "u", " ", "l", "i", "k", "e", " ", "t", "o", " ", "s", "p", "e", "a", "k">>,
       <<"r", "e", "p", "l", "y", " ", "*", "y", "e", "s", "*">>,
       <<"c", "o", "n", "n", "e", "c", "t", " ", "y", "o", "u">>,
       <<"s", "o", "u", "h", "a", "i", "t", "e", "z", "-", "v", "o", "u", "s">>,
       <<"r", "U+00E9", "p", "o", "n", "d", "e", "z", " ", "*", "o", "u", "i", "*">> >>

affirmative_words ==
    << <<"y", "e", "s">>,
       <<"o", "u", "i">>,
       <<"y", "e", "a", "h">>,
       <<"s", "u", "r", "e">>,
       <<"p", "l", "e", "a", "s", "e">>,
       <<"o", "k">> >>

french_words ==
    << <<"b", "o", "n", "j", "o", "u", "r">>,
       <<"s", "a", "l", "u", "t">>,
       <<"m", "e", "r", "c", "i">>,
       <<"o", "u", "i">>,
       <<"n", "o", "n">>,
       <<"j", "e">>,
       <<"n", "o", "u", "s">>,
       <<"v", "o", "u", "s">>,
       <<"c", "o", "m", "m", "e", "n", "t">>,
       <<"c", "o", "m", "b", "i", "e", "n">>,
       <<"q", "u", "e", "l">>,
       <<"p", "o", "u", "r">>,
       <<"a", "v", "e", "c">>,
       <<"e", "s", "t", "-", "c", "e">>,
       <<"p", "o", "u", "v", "e", "z">>,
       <<"a", "v", "e", "z">>,
       <<"v", "o", "u", "l", "e", "z">>,
       <<"s", "o", "u", "h", "a", "i", "t", "e", "z">>,
       <<"l", "i", "v", "r", "a", "i", "s", "o", "n">>,
       <<"c", "o", "m", "m", "a", "n", "d", "e">> >>

Whitespace == {" ", "LF", "TAB"}

RECURSIVE LStripChars(_)
LStripChars(cs) ==
    IF cs # << >> /\ Head(cs) \in Whitespace THEN LStripChars(Tail(cs)) ELSE cs

RECURSIVE RStripChars(_)
RStripChars(cs) ==
    IF cs # << >> /\ cs[Len(cs)] \in Whitespace
    THEN RStripChars(SubSeq(cs, 1, Len(cs) - 1)) ELSE cs

LowerChars(cs) == [i \in 1..Len(cs) |-> LowerChar(cs[i])]
UpperChars(cs) == [i \in 1..Len(cs) |-> UpperChar(cs[i])]

\* sub in cs
ContainsChars(cs, sub) ==
    \E i \in 1..(Len(cs) + 1 - Len(sub)) : SubSeq(cs, i, i + Len(sub) - 1) = sub

\* any(p in cs for p in phrases)
ContainsAny(cs, phrases) ==
    \E j \in 1..Len(phrases) : ContainsChars(cs, phrases[j])

\* cs.startswith(prefix)
StartsWithChars(cs, prefix) ==
    Len(cs) >= Len(prefix) /\ SubSeq(cs, 1, Len(prefix)) = prefix

\* The text with these characters.
TextOf(cs) == CHOOSE s \in AllTexts : Chars(s) = cs

StripTable == [s \in AllTexts |-> TextOf(RStripChars(LStripChars(Chars(s))))]
\* str.strip()
Strip(s) == StripTable[s]

StrLenTable == [s \in AllTexts |-> Len(Chars(s))]
\* len(str)
StrLen(s) == StrLenTable[s]

LowerTable == [s \in AllTexts |-> LowerChars(Chars(s))]
\* str.lower(), as characters
Lower(s) == LowerTable[s]

UpperTable == [s \in AllTexts |-> UpperChars(Chars(s))]
\* str.upper(), as characters
Upper(s) == UpperTable[s]

(***************************************************************************)
(* app/database.py: similarity_search                                      *)
(***************************************************************************)
\* Stored chunk identifiers are 1..MaxChunkId.
MaxChunkId == 2
ChunkIds == 1..MaxChunkId

\* Similarities, in units of 0.00001.
SimValues == {17000, 82004, 82006}

RECURSIVE DistinctSeqs(_, _)
\* The sequences of at most n rows over ids, no identifier twice.
DistinctSeqs(ids, n) ==
    IF n = 0 \/ ids = {} THEN { << >> }
    ELSE { << >> } \cup
         UNION { { << [id |-> i, similarity |-> s] >> \o rest :
                     rest \in DistinctSeqs(ids \ {i}, n - 1) } :
                 i \in ids, s \in SimValues }

\* The rows the match_colorix_documents database function can answer with: rows
\* of distinct chunks above the threshold, at most match_count of them.
MatchDocuments(match_count, match_threshold) ==
    { rows \in DistinctSeqs(documents, match_count) :
        \A j \in 1..Len(rows) : rows[j].similarity > match_threshold }

\* similarity_search: `result.data or []`, and [] when the call raises.
SimilaritySearch(top_k, threshold) ==
    MatchDocuments(top_k, threshold) \cup { << >> }

(***************************************************************************)
(* app/retriever.py: expand_query, retrieve                                *)
(***************************************************************************)
\* settings.vector_top_k (config.py)
VectorTopK == 5
\* threshold = 0.15
RetrieveThreshold == 15000
\* len(rephrased) < 300
MaxRephrasedLen == 300

Queries == {"do you print business cards?"}

\* What the gateway can hand expand_query.
RephraseTexts ==
    { PaddedRephrasing, "", "   ",
      LongText, AlmostLongText, "do you print business cards?" }

\* An expansion that takes a rephrasing of any length.
ExpandResultAnyLength(query, gw) ==
    IF gw.pc = "returned"
    THEN LET rephrased == Strip(gw.result) IN
         IF rephrased # "" THEN rephrased ELSE query
    ELSE query

\* expand_query after the gateway call has ended: the stripped rephrasing when
\* it is non-empty and shorter than 300, else the query.
ExpandResult(query, gw) ==
    IF gw.pc = "returned"
    THEN LET rephrased == Strip(gw.result) IN
         IF rephrased # "" /\ StrLen(rephrased) < MaxRephrasedLen
         THEN rephrased ELSE query
    ELSE query

\* list(dict.fromkeys([query, expanded]))
DedupQueries(query, expanded) ==
    IF expanded = query THEN << query >> ELSE << query, expanded >>

\* k = top_k or settings.vector_top_k
\* (top_k: int | None is << >> for None and << n >> for the number n; None and
\* 0 are both falsy)
EffectiveK(top_k) ==
    IF top_k = << >> \/ top_k[1] = 0 THEN VectorTopK ELSE top_k[1]

IndexOfId(rows, id) ==
    IF \E j \in 1..Len(rows) : rows[j].id = id
    THEN CHOOSE j \in 1..Len(rows) : rows[j].id = id
    ELSE 0

\* A merge that keeps the first occurrence of an identifier.
MergeRowKeepFirst(all, r) ==
    IF IndexOfId(all, r.id) = 0 THEN Append(all, r) ELSE all

\* if chunk_id not in all_results or r["similarity"] > all_results[chunk_id]["similarity"]:
\*     all_results[chunk_id] = r
\* (a dict keeps the position of a key that is assigned again)
MergeRow(all, r) ==
    LET j == IndexOfId(all, r.id) IN
    IF j = 0 THEN Append(all, r)
    ELSE IF r.similarity > all[j].similarity THEN [all EXCEPT ![j] = r]
    ELSE all

RECURSIVE MergeRows(_, _)
\* for r in results: ...
MergeRows(all, results) ==
    IF results = << >> THEN all
    ELSE MergeRows(MergeRow(all, Head(results)), Tail(results))

RECURSIVE InsertDesc(_, _)
\* r placed after every row of the descending sequence that is not smaller.
InsertDesc(sorted, r) ==
    IF sorted = << >> THEN << r >>
    ELSE IF Head(sorted).similarity >= r.similarity
         THEN << Head(sorted) >> \o InsertDesc(Tail(sorted), r)
         ELSE << r >> \o sorted

RECURSIVE SortDescFrom(_, _)
SortDescFrom(sorted, rows) ==
    IF rows = << >> THEN sorted
    ELSE SortDescFrom(InsertDesc(sorted, Head(rows)), Tail(rows))

\* sorted(rows, key=similarity, reverse=True): stable, descending.
SortDesc(rows) == SortDescFrom(<< >>, rows)

\* seq[:k] for k >= 0
Take(seq, k) == SubSeq(seq, 1, IF k < Len(seq) THEN k ELSE Len(seq))

\* round(x, 4), x in units of 0.00001 (no value of SimValues ends in 5)
Round4(x) == ((x + 5) \div 10) * 10

\* RetrievedChunk(content, metadata, similarity = round(similarity, 4)); the
\* identifier is kept beside it to name the row the chunk was built from.
ToChunks(rows) ==
    [ j \in 1..Len(rows) |->
        [id |-> rows[j].id, similarity |-> Round4(rows[j].similarity)] ]

RtIdle ==
    [ pc |-> "idle", query |-> "", top_k |-> << >>, k |-> 0, gw |-> GwIdle,
      expanded |-> "", queries |-> << >>, qi |-> 0, all_results |-> << >>,
      searches |-> << >>, results |-> << >>, chunks |-> << >> ]

\* retrieve(query, top_k) up to the gateway call `await invoke_with_fallback`
\* inside expand_query.
RetrieveCall(query, top_k) ==
    /\ rt.pc = "idle"
    /\ rt' = [RtIdle EXCEPT !.pc = "expand", !.query = query, !.top_k = top_k,
                            !.k = EffectiveK(top_k),
                            !.gw = GwBegin(None, query, settings.primary_llm)]
    /\ UNCHANGED <<staff, settings, llm, documents, env, conversations, session,
                   escalations, turn, loop, started>>

\* expand_query returns; queries are deduplicated.
RetrieveExpanded(gw) ==
    LET expanded == ExpandResult(rt.query, gw) IN
    [rt EXCEPT !.pc = "search", !.gw = gw, !.expanded = expanded,
               !.queries = DedupQueries(rt.query, expanded), !.qi = 1]

\* The primary provider answers the rephrasing request or raises.
RetrievePrimaryDone ==
    /\ rt.pc = "expand" /\ rt.gw.pc = "primary"
    /\ \E out \in RephraseTexts \cup {Raise} :
          LET gw == GwPrimaryDone(rt.gw, out) IN
          rt' = IF GwEnded(gw) THEN RetrieveExpanded(gw) ELSE [rt EXCEPT !.gw = gw]
    /\ UNCHANGED <<staff, settings, llm, documents, env, conversations, session,
                   escalations, turn, loop, started>>

\* The fallback provider answers the rephrasing request or raises.
RetrieveFallbackDone ==
    /\ rt.pc = "expand" /\ rt.gw.pc = "fallback"
    /\ \E out \in RephraseTexts \cup {Raise} :
          rt' = RetrieveExpanded(GwFallbackDone(rt.gw, out))
    /\ UNCHANGED <<staff, settings, llm, documents, env, conversations, session,
                   escalations, turn, loop, started>>

\* The rows of the sorted, cut and converted result.
RetrieveFinish(all) == ToChunks(Take(SortDesc(all), rt.k))

\* One pass of `for q in queries`: embed, search, merge; after the last query
\* the merged rows are sorted, cut to k and converted.
RetrieveSearch ==
    /\ rt.pc = "search"
    /\ \E rows \in SimilaritySearch(rt.k, RetrieveThreshold) :
          LET all  == MergeRows(rt.all_results, rows)
              last == rt.qi = Len(rt.queries)
          IN rt' = [rt EXCEPT
                      !.all_results = all,
                      !.searches = Append(@, [query |-> rt.queries[rt.qi],
                                              top_k |-> rt.k,
                                              threshold |-> RetrieveThreshold]),
                      !.results = Append(@, rows),
                      !.qi = IF last THEN @ ELSE @ + 1,
                      !.pc = IF last THEN "done" ELSE "search",
                      !.chunks = IF last THEN RetrieveFinish(all) ELSE << >>]
    /\ UNCHANGED <<staff, settings, llm, documents, env, conversations, session,
                   escalations, turn, loop, started>>

(***************************************************************************)
(* app/database.py: the conversation log                                   *)
(***************************************************************************)
\* The one customer of the model and the session derived from the number
\* (whatsapp.py: phone_to_session_id).
Phone == "237600000001"
SessionId == "wa_237600000001"

RECURSIVE SessionRows(_, _)
\* .eq("session_id", session_id): the rows of the session, in creation order
SessionRows(log, session_id) ==
    IF log = << >> THEN << >>
    ELSE LET rest == SessionRows(Tail(log), session_id) IN
         IF Head(log).session_id = session_id
         THEN << Head(log) >> \o rest ELSE rest

\* .select("role, content, created_at")
SelectedColumns(m) ==
    [role |-> m.role, content |-> m.content, created_at |-> m.created_at]

\* get_conversation_history: the session's rows ordered by created_at
\* ascending, cut by .limit(limit) to the first `limit` of them.
GetConversationHistory(log, session_id, limit) ==
    LET found == SessionRows(log, session_id) IN
    Take([j \in 1..Len(found) |-> SelectedColumns(found[j])], limit)

\* save_message: one row appended; created_at is assigned by the server.
InsertMessage(log, session_id, role, content, language, metadata) ==
    Append(log,
           [session_id |-> session_id, role |-> role, content |-> content,
            language |-> language, metadata |-> metadata,
            created_at |-> Len(log) + 1])

\* create_escalation: one row inserted, resolved defaults to false; the
\* identifier the insert returns.
InsertEscalation(table, session_id, customer_number, trigger_reason, last_user_msg, bot_draft) ==
    Append(table,
           [id |-> Len(table) + 1, session_id |-> session_id,
            customer_number |-> customer_number,
            trigger_reason |-> trigger_reason,
            last_user_msg |-> last_user_msg, bot_draft |-> bot_draft,
            resolved |-> FALSE])

(***************************************************************************)
(* app/agent.py: process_message, the computations between its awaits      *)
(***************************************************************************)
\* get_conversation_history(session_id, 8)
HistoryLimit == 8
\* similarity_search(embedding, 5, 0.20)
SearchTopK == 5
SearchThreshold == 20000

HandoffEn == "<handoff en>"
HandoffFr == "<handoff fr>"
Apology == "<apology>"

RECURSIVE LastAssistantIndex(_, _)
\* for msg in reversed(history): if msg["role"] == "assistant": ... break
\* (0 when the history has no assistant message)
LastAssistantIndex(history, j) ==
    IF j = 0 THEN 0
    ELSE IF history[j].role = "assistant" THEN j
    ELSE LastAssistantIndex(history, j - 1)

\* msg.get("language", "en")
GetLanguage(msg) == IF "language" \in DOMAIN msg THEN msg.language ELSE "en"

\* Step 5: last_lang
LastLang(history) ==
    LET j == LastAssistantIndex(history, Len(history)) IN
    IF j = 0 THEN "en" ELSE GetLanguage(history[j])

\* last_bot_msg, before .lower()
LastBotMsg(history) ==
    LET j == LastAssistantIndex(history, Len(history)) IN
    IF j = 0 THEN "" ELSE history[j].content

OfferTable == [s \in AllTexts |-> ContainsAny(Lower(s), offer_phrases)]
\* bot_offered
BotOffered(history) == OfferTable[LastBotMsg(history)]

AffirmativeTable == [s \in AllTexts |-> ContainsAny(Lower(s), affirmative_words)]
\* user_said_yes
UserSaidYes(user_message) == AffirmativeTable[user_message]

HumanKeywordTable ==
    [s \in AllTexts |-> ContainsAny(Lower(s), explicit_human_keywords)]
\* any(kw in user_message.lower() for kw in explicit_human_keywords)
HasHumanKeyword(user_message) == HumanKeywordTable[user_message]

SentinelTable ==
    [s \in AllTexts |->
        StartsWithChars(Upper(s), << "E", "S", "C", "A", "L", "A", "T", "E" >>)]
\* response.upper().startswith("ESCALATE")
StartsWithSentinel(response) == SentinelTable[response]

\* A decision that stays escalated: it also holds when the last assistant
\* message of the history is the handoff message of an escalated turn.
NeedsEscalationSticky(response, user_message, history) ==
    \/ StartsWithSentinel(response)
    \/ HasHumanKeyword(user_message)
    \/ (BotOffered(history) /\ UserSaidYes(user_message))
    \/ LastBotMsg(history) \in {HandoffEn, HandoffFr}

\* needs_escalation
NeedsEscalation(response, user_message, history) ==
    \/ StartsWithSentinel(response)
    \/ HasHumanKeyword(user_message)
    \/ (BotOffered(history) /\ UserSaidYes(user_message))

\* A draft that is kept whatever the response begins with.
BotDraftAlways(response) == response

\* bot_draft = response if not response.upper().startswith("ESCALATE") else ""
BotDraft(response) == IF StartsWithSentinel(response) THEN "" ELSE response

\* The fixed handoff message, chosen by last_lang
HandoffMessage(last_lang) == IF last_lang = "en" THEN HandoffEn ELSE HandoffFr

FrenchTable == [s \in AllTexts |-> ContainsAny(Lower(s), french_words)]
\* A tag that is left at the column's default.
StorageLangDefault(user_message) == "en"

\* Step 9: lang
StorageLang(user_message) == IF FrenchTable[user_message] THEN "fr" ELSE "en"

(***************************************************************************)
(* app/main.py: _process_and_reply; app/agent.py: process_message,         *)
(* _save_memory.  One turn per inbound text message.                       *)
(***************************************************************************)
\* whatsapp.py: body[:1600]
MaxBody == 1600
Truncate(body) ==
    IF StrLen(body) <= MaxBody THEN body ELSE TextOf(Take(Chars(body), MaxBody))

TurnNew ==
    [ pc |-> "new", user_message |-> "", hist |-> "none", history |-> << >>,
      seen |-> 0, raw_chunks |-> << >>, gw |-> GwIdle, draft |-> "",
      needs_escalation |-> FALSE, last_lang |-> "en", outcome |-> "none",
      reply |-> "", lang |-> "en", escalation_id |-> 0, notify |-> "none",
      bg |-> "none", attempts |-> << >>, delivered |-> << >>,
      embed |-> "none", search |-> "none", context |-> "none",
      staff_sends |-> << >>, writes |-> << >>, after |-> {},
      searches |-> << >>, gw_calls |-> 0, steps |-> << >> ]

\* The coroutines _process_and_reply that can be in flight at once; a slot is
\* taken by the next inbound message once its turn and its _save_memory task
\* have ended.
Turns == 1..env.max_inflight

SlotFree(t) ==
    /\ turn[t].pc \in {"new", "done"}
    /\ turn[t].bg \in {"none", "done", "failed"}

\* Whether an I/O call of this kind returns: it may raise in a behaviour whose
\* environment lets that kind of call fail.
Outcomes(kind) == IF kind \in env.faults THEN BOOLEAN ELSE {TRUE}

\* A loop that other tasks get between two writes of a _save_memory task, as if
\* each write were awaited.
LoopYielded == TRUE

\* The event loop is free: no _save_memory task is in the middle of its writes.
LoopFree == loop = 0

\* send_whatsapp_message(to=from_raw, body=body), once
SendToCustomer(tr, body, ok) ==
    [tr EXCEPT !.attempts = Append(@, [body |-> Truncate(body), ok |-> ok]),
               !.delivered = IF ok THEN Append(@, Truncate(body)) ELSE @]

\* A caller that records the failed turn too: it schedules the persistence
\* task in its except branch.
ReplyFailedPersisting(tr, apology_ok) ==
    SendToCustomer([tr EXCEPT !.pc = "done", !.outcome = "raised",
                              !.raw_chunks = << >>,
                              !.context = "none",
                              !.reply = Apology,
                              !.bg = "scheduled"],
                   Apology, apology_ok)

\* _process_and_reply, the except branch: the apology is sent once, and a
\* failure of that send is passed over.
ReplyFailed(tr, apology_ok) ==
    SendToCustomer([tr EXCEPT !.pc = "done", !.outcome = "raised",
                              !.raw_chunks = << >>,
                              !.context = "none"],
                   Apology, apology_ok)

\* A caller that gives up when the reply cannot be sent.
ReplyReturnedNoApology(tr, reply, reply_ok, apology_ok) ==
    SendToCustomer([tr EXCEPT !.pc = "done", !.outcome = "returned",
                              !.reply = reply, !.raw_chunks = << >>,
                              !.context = "none"],
                   reply, reply_ok)

\* _process_and_reply after process_message returned: the reply is sent, and
\* when that send raises the except branch sends the apology.
ReplyReturned(tr, reply, reply_ok, apology_ok) ==
    LET sent == SendToCustomer([tr EXCEPT !.pc = "done", !.outcome = "returned",
                                          !.reply = reply, !.raw_chunks = << >>,
                              !.context = "none"],
                               reply, reply_ok)
    IN IF reply_ok THEN sent ELSE SendToCustomer(sent, Apology, apology_ok)

\* _process_and_reply is started for an inbound text: process_message creates
\* the history and embedding tasks and awaits both.
TurnStart(t) ==
    /\ LoopFree
    /\ started < env.max_turns
    /\ SlotFree(t)
    /\ \A u \in 1..(t - 1) : ~SlotFree(u)
    /\ \A u \in Turns : turn[u].bg # "scheduled"
    /\ started' = started + 1
    /\ \E msg \in env.user_messages :
          turn' = [turn EXCEPT ![t] = [TurnNew EXCEPT !.pc = "gather",
                                                      !.user_message = msg,
                                                      !.hist = "pending",
                                                      !.embed = "pending"]]
    /\ UNCHANGED <<staff, settings, llm, rt, documents, env, conversations, session,
                   escalations, loop>>

\* The worker thread of the history task reads the store, or the read raises.
HistoryRead(t) ==
    /\ turn[t].pc = "gather"
    /\ turn[t].hist = "pending"
    /\ \E ok \in Outcomes("history") :
          turn' = [turn EXCEPT ![t] =
                     IF ok
                     THEN [@ EXCEPT !.hist = "ok",
                                    !.history = GetConversationHistory(
                                                   conversations, SessionId, HistoryLimit),
                                    !.seen = Len(SessionRows(conversations, SessionId))]
                     ELSE [@ EXCEPT !.hist = "raised"]]
    /\ UNCHANGED <<staff, settings, llm, rt, documents, env, conversations, session,
                   escalations, loop, started>>

\* An assembler that goes on as soon as the embedding is there.
GatherResumeEarly(t) ==
    /\ LoopFree
    /\ turn[t].pc = "gather"
    /\ turn' = [turn EXCEPT ![t].pc = "search", ![t].embed = "ok"]
    /\ UNCHANGED <<staff, settings, llm, rt, documents, env, conversations, session,
                   escalations, loop, started>>

\* `await asyncio.gather(history_task, embed_task)` resumes: with both results,
\* or with the first exception, which leaves process_message.
GatherResume(t) ==
    /\ LoopFree
    /\ turn[t].pc = "gather"
    /\ \E embed_ok \in Outcomes("embedding"), apology_ok \in Outcomes("send") :
          /\ turn[t].hist = "pending" => ~embed_ok
          /\ turn' = [turn EXCEPT ![t] =
                        IF embed_ok /\ turn[t].hist = "ok"
                        THEN [@ EXCEPT !.pc = "search", !.embed = "ok"]
                        ELSE ReplyFailed([@ EXCEPT !.embed = IF embed_ok
                                                             THEN "pending"
                                                             ELSE "raised"],
                                         apology_ok)]
    /\ UNCHANGED <<staff, settings, llm, rt, documents, env, conversations, session,
                   escalations, loop, started>>

\* similarity_search when the backend call raises where it would have
\* answered `rows`: the exception is passed on to the caller.
SimilaritySearchRaising(ok, rows) ==
    [raised |-> ~ok, rows |-> IF ok THEN rows ELSE << >>]

\* similarity_search: `result.data or []`, and `return []` in the except
\* branch when the rpc call raises.
SimilaritySearchResult(ok, rows) ==
    [raised |-> FALSE, rows |-> IF ok THEN rows ELSE << >>]

NoInfoContext == "No relevant information found in knowledge base."
\* Step 3: context
BuildContext(raw_chunks) ==
    IF raw_chunks # << >> THEN "<numbered chunks>" ELSE NoInfoContext

\* The call similarity_search(embedding, 5, 0.20) of step 2, by its arguments;
\* the embedding is that of the raw user message.
SearchCall(user_message) ==
    [query |-> user_message, top_k |-> SearchTopK, threshold |-> SearchThreshold]

\* An orchestrator that has the gateway rephrase the query before it asks for
\* the reply: two gateway calls in the turn.
InvokeGatewayAfterExpansion(tr, user_message) ==
    [tr EXCEPT !.gw = GwBegin(None, user_message, settings.primary_llm),
               !.gw_calls = @ + 2]

\* Step 6: `await invoke_with_fallback([...])`, the turn's gateway call.
InvokeGateway(tr, user_message) ==
    [tr EXCEPT !.gw = GwBegin(None, user_message, settings.primary_llm),
               !.gw_calls = @ + 1]

\* `await asyncio.to_thread(similarity_search, embedding, 5, 0.20)` resumes;
\* steps 3 to 5 build the prompt and step 6 awaits the gateway's primary.
SearchDone(t) ==
    /\ LoopFree
    /\ turn[t].pc = "search"
    /\ \E ok \in Outcomes("search"), apology_ok \in Outcomes("send"),
          rows \in MatchDocuments(SearchTopK, SearchThreshold) \cup { << >> } :
          LET res == SimilaritySearchResult(ok, rows) IN
          turn' = [turn EXCEPT ![t] =
                     IF res.raised
                     THEN ReplyFailed([@ EXCEPT !.search = "raised",
                                                !.searches = << SearchCall(turn[t].user_message) >>],
                                      apology_ok)
                     ELSE InvokeGateway(
                             [@ EXCEPT !.pc = "llm",
                                       !.search = IF ok THEN "ok" ELSE "failed",
                                       !.searches = << SearchCall(turn[t].user_message) >>,
                                       !.raw_chunks = res.rows,
                                       !.context = BuildContext(res.rows),
                                       !.last_lang = LastLang(turn[t].history)],
                             turn[t].user_message)]
    /\ UNCHANGED <<staff, settings, llm, rt, documents, env, conversations, session,
                   escalations, loop, started>>

\* A notification that is sent again after a send that raised.
NotifyStaffRetry(needs, staff_ok) ==
    IF ~needs THEN << >> ELSE IF staff_ok THEN << TRUE >> ELSE << FALSE, TRUE >>

\* Step 8, the staff notification: one send inside try/except, its outcome.
NotifyStaff(needs, staff_ok) == IF needs THEN << staff_ok >> ELSE << >>

\* A create_escalation that passes over a failed insert and answers -1.
CreateEscalationSwallowed(ok, id) ==
    [raised |-> FALSE, inserted |-> ok, id |-> IF ok THEN id ELSE -1]

\* create_escalation as step 8 sees it: the insert returns the identifier of
\* the new row, or its exception leaves create_escalation and process_message.
CreateEscalationResult(ok, id) ==
    [raised |-> ~ok, inserted |-> ok, id |-> IF ok THEN id ELSE 0]

\* An orchestrator that leaves the staff notification to the end, after the
\* persistence task has been created.
HandoffStepsNotifyLast(needs, staff_ok) ==
    IF needs
    THEN << "create_escalation", "create_task",
            IF staff_ok THEN "notify_staff" ELSE "notify_staff raised", "return" >>
    ELSE << "create_task", "return" >>

\* Steps 8 to 10 of a turn in the order process_message takes them once
\* create_escalation has returned: the staff send inside its try, the
\* persistence task, the return.
HandoffSteps(needs, staff_ok) ==
    (IF needs
     THEN << "create_escalation",
             IF staff_ok THEN "notify_staff" ELSE "notify_staff raised" >>
     ELSE << >>)
    \o << "create_task", "return" >>

\* The _save_memory tasks created before this one and not yet run.
ScheduledSaves == { u \in DOMAIN turn : turn[u].bg = "scheduled" }

\* Steps 7 to 10 of process_message and the rest of _process_and_reply, which
\* run without an await that suspends once the gateway call has ended.
AfterGateway(t, gw, esc_ok, staff_ok, reply_ok, apology_ok) ==
    LET tr       == [turn[t] EXCEPT !.gw = gw]
        response == Strip(gw.result)
        needs    == NeedsEscalation(response, tr.user_message, tr.history)
        reply    == IF needs THEN HandoffMessage(tr.last_lang) ELSE response
        esc      == CreateEscalationResult(esc_ok, Len(escalations) + 1)
    IN
    IF gw.pc = "raised"
    THEN /\ turn' = [turn EXCEPT ![t] = ReplyFailed(tr, apology_ok)]
         /\ UNCHANGED escalations
    ELSE IF needs /\ esc.raised
    THEN \* create_escalation raises
         /\ turn' = [turn EXCEPT ![t] =
                       ReplyFailed([tr EXCEPT !.draft = response,
                                              !.needs_escalation = TRUE,
                                              !.steps = << "create_escalation raised" >>],
                                   apology_ok)]
         /\ UNCHANGED escalations
    ELSE /\ escalations' =
               IF needs /\ esc.inserted
               THEN InsertEscalation(escalations, SessionId, Phone,
                                     "user_requested_human", tr.user_message,
                                     BotDraft(response))
               ELSE escalations
         /\ turn' = [turn EXCEPT ![t] =
                       ReplyReturned(
                          [tr EXCEPT !.draft = response,
                                     !.needs_escalation = needs,
                                     !.escalation_id = IF needs THEN esc.id ELSE 0,
                                     !.notify = IF ~needs THEN "none"
                                                ELSE IF staff_ok THEN "sent" ELSE "failed",
                                     !.staff_sends = NotifyStaff(needs, staff_ok),
                                     !.steps = HandoffSteps(needs, staff_ok),
                                     !.lang = StorageLang(tr.user_message),
                                     !.bg = "scheduled",
                                     !.after = ScheduledSaves],
                          reply, reply_ok, apology_ok)]

\* primary.ainvoke of the turn's gateway call completes.
TurnPrimaryDone(t) ==
    /\ LoopFree
    /\ turn[t].pc = "llm" /\ turn[t].gw.pc = "primary"
    /\ \E out \in env.model_texts \cup (IF "provider" \in env.faults THEN {Raise} ELSE {}),
          esc_ok \in Outcomes("escalation"), staff_ok \in Outcomes("staff"),
          reply_ok \in Outcomes("send"), apology_ok \in Outcomes("send") :
          LET gw == GwPrimaryDone(turn[t].gw, out) IN
          IF GwEnded(gw)
          THEN AfterGateway(t, gw, esc_ok, staff_ok, reply_ok, apology_ok)
          ELSE /\ turn' = [turn EXCEPT ![t].gw = gw]
               /\ UNCHANGED escalations
    /\ UNCHANGED <<staff, settings, llm, rt, documents, env, conversations, session, loop,
                   started>>

\* fallback.ainvoke of the turn's gateway call completes.
TurnFallbackDone(t) ==
    /\ LoopFree
    /\ turn[t].pc = "llm" /\ turn[t].gw.pc = "fallback"
    /\ \E out \in env.model_texts \cup (IF "provider" \in env.faults THEN {Raise} ELSE {}),
          esc_ok \in Outcomes("escalation"), staff_ok \in Outcomes("staff"),
          reply_ok \in Outcomes("send"), apology_ok \in Outcomes("send") :
          AfterGateway(t, GwFallbackDone(turn[t].gw, out),
                       esc_ok, staff_ok, reply_ok, apology_ok)
    /\ UNCHANGED <<staff, settings, llm, rt, documents, env, conversations, session, loop,
                   started>>

\* One write of _save_memory and whether it returned.
Write(what, ok) == [what |-> what, ok |-> ok]

\* A task that is run again after its first insert raised.
SaveUserRetry(t) ==
    /\ LoopFree
    /\ turn[t].bg = "scheduled"
    /\ \E ok \in Outcomes("store") :
          IF ok
          THEN /\ conversations' = InsertMessage(conversations, SessionId, "user",
                                                 turn[t].user_message, turn[t].lang,
                                                 [phone |-> Phone])
               /\ turn' = [turn EXCEPT ![t].bg = "user", ![t].after = {},
                                       ![t].writes = Append(@, Write("user", TRUE))]
               /\ loop' = t
          ELSE /\ Len(turn[t].writes) < 2
               /\ turn' = [turn EXCEPT ![t].writes = Append(@, Write("user", FALSE))]
               /\ UNCHANGED <<conversations, loop>>
    /\ UNCHANGED <<staff, settings, llm, rt, documents, env, session, escalations, started>>

\* _save_memory starts: the first save_message (role user).  The task holds the
\* event loop until it ends: none of its three writes is awaited.
SaveUser(t) ==
    /\ LoopFree
    /\ turn[t].bg = "scheduled"
    /\ \A u \in turn[t].after : turn[u].bg # "scheduled"
    /\ \E ok \in Outcomes("store") :
          IF ok
          THEN /\ conversations' = InsertMessage(conversations, SessionId, "user",
                                                 turn[t].user_message, turn[t].lang,
                                                 [phone |-> Phone])
               /\ turn' = [turn EXCEPT ![t].bg = "user", ![t].after = {},
                                       ![t].writes = Append(@, Write("user", TRUE))]
               /\ loop' = t
          ELSE /\ turn' = [turn EXCEPT ![t].bg = "failed", ![t].after = {},
                                       ![t].writes = Append(@, Write("user", FALSE))]
               /\ UNCHANGED <<conversations, loop>>
    /\ UNCHANGED <<staff, settings, llm, rt, documents, env, session, escalations, started>>

\* A task that goes on to the session upsert after the assistant insert raised.
SaveAssistantContinue(t) ==
    /\ loop = t
    /\ turn[t].bg = "user"
    /\ \E ok \in Outcomes("store") :
          /\ conversations' =
                IF ok
                THEN InsertMessage(conversations, SessionId, "assistant",
                                   turn[t].reply, turn[t].lang,
                                   [escalated |-> turn[t].needs_escalation])
                ELSE conversations
          /\ turn' = [turn EXCEPT ![t].bg = "assistant",
                                  ![t].writes = Append(@, Write("assistant", ok))]
          /\ UNCHANGED loop
    /\ UNCHANGED <<staff, settings, llm, rt, documents, env, session, escalations, started>>

\* A task created before the escalation step: it stores the model's draft.
SaveAssistantDraft(t) ==
    /\ loop = t
    /\ turn[t].bg = "user"
    /\ conversations' = InsertMessage(conversations, SessionId, "assistant",
                                      turn[t].draft, turn[t].lang,
                                      [escalated |-> FALSE])
    /\ turn' = [turn EXCEPT ![t].bg = "assistant",
                            ![t].writes = Append(@, Write("assistant", TRUE))]
    /\ UNCHANGED <<staff, settings, llm, rt, documents, env, session, escalations, started,
                   loop>>

\* A task that is not told the decision: its assistant message is stored as
\* not escalated.
SaveAssistantUnflagged(t) ==
    /\ loop = t
    /\ turn[t].bg = "user"
    /\ conversations' = InsertMessage(conversations, SessionId, "assistant",
                                      turn[t].reply, turn[t].lang,
                                      [escalated |-> FALSE])
    /\ turn' = [turn EXCEPT ![t].bg = "assistant",
                            ![t].writes = Append(@, Write("assistant", TRUE))]
    /\ UNCHANGED <<staff, settings, llm, rt, documents, env, session, escalations, started,
                   loop>>

\* The second save_message (role assistant).
SaveAssistant(t) ==
    /\ loop = t
    /\ turn[t].bg = "user"
    /\ \E ok \in Outcomes("store") :
          IF ok
          THEN /\ conversations' = InsertMessage(conversations, SessionId, "assistant",
                                                 turn[t].reply, turn[t].lang,
                                                 [escalated |-> turn[t].needs_escalation])
               /\ turn' = [turn EXCEPT ![t].bg = "assistant",
                                       ![t].writes = Append(@, Write("assistant", TRUE))]
               /\ UNCHANGED loop
          ELSE /\ turn' = [turn EXCEPT ![t].bg = "failed",
                                       ![t].writes = Append(@, Write("assistant", FALSE))]
               /\ loop' = 0
               /\ UNCHANGED conversations
    /\ UNCHANGED <<staff, settings, llm, rt, documents, env, session, escalations, started>>

\* A store that keeps the session row it has and rejects a later upsert.
UpsertSessionFirstWins(t) ==
    /\ loop = t
    /\ turn[t].bg = "assistant"
    /\ session' = IF session.session_id = ""
                  THEN [session_id |-> SessionId, phone_number |-> Phone,
                        language |-> turn[t].lang,
                        state |-> [last_message |-> turn[t].user_message,
                                   last_response |-> turn[t].reply]]
                  ELSE session
    /\ turn' = [turn EXCEPT ![t].bg = "done",
                            ![t].writes = Append(@, Write("session", TRUE))]
    /\ loop' = 0
    /\ UNCHANGED <<staff, settings, llm, rt, documents, env, conversations, escalations,
                   started>>

\* A task that upserts the session before the assistant message is inserted.
UpsertSessionEarly(t) ==
    /\ loop = t
    /\ turn[t].bg = "user"
    /\ session' = [session_id |-> SessionId, phone_number |-> Phone,
                   language |-> turn[t].lang,
                   state |-> [last_message |-> turn[t].user_message,
                              last_response |-> turn[t].reply]]
    /\ turn' = [turn EXCEPT ![t].bg = "done",
                            ![t].writes = Append(@, Write("session", TRUE))]
    /\ loop' = 0
    /\ UNCHANGED <<staff, settings, llm, rt, documents, env, conversations, escalations,
                   started>>

\* upsert_session, and the task ends.
UpsertSession(t) ==
    /\ loop = t
    /\ turn[t].bg = "assistant"
    /\ \E ok \in Outcomes("store") :
          IF ok
          THEN /\ session' = [session_id |-> SessionId, phone_number |-> Phone,
                              language |-> turn[t].lang,
                              state |-> [last_message |-> turn[t].user_message,
                                         last_response |-> turn[t].reply]]
               /\ turn' = [turn EXCEPT ![t].bg = "done",
                                       ![t].writes = Append(@, Write("session", TRUE))]
          ELSE /\ turn' = [turn EXCEPT ![t].bg = "failed",
                                       ![t].writes = Append(@, Write("session", FALSE))]
               /\ UNCHANGED session
    /\ loop' = 0
    /\ UNCHANGED <<staff, settings, llm, rt, documents, env, conversations, escalations,
                   started>>

(***************************************************************************)
(* app/main.py: staff_reply; app/database.py: resolve_escalation           *)
(***************************************************************************)
\* settings.app_secret (config.py), the value configured by default
AppSecret == "changeme"

\* The secrets a request can carry: the configured one, one that differs from
\* it in case only, the empty one.
Secrets == {AppSecret, "Changeme", ""}

\* The staff responses and customer numbers a request can carry.
StaffResponses == {"We print business cards. For a quote call +237 696 26 26 56"}
CustomerNumbers == {Phone, "237600000002"}

\* No staff-reply request has been handled, no staff response sent.
StaffIdle == [count |-> 0, last |-> [status |-> 0], sent |-> << >>]

\* A check that lets every request with a non-empty secret through.
SecretGiven(secret, app_secret) == secret # ""

\* `if secret != settings.app_secret: raise HTTPException(401)`, the requests
\* that get past it.
SecretAccepted(secret, app_secret) == secret = app_secret

\* The row after update({"resolved": True, "staff_response": ...}).
ResolvedRow(row, staff_response) ==
    [f \in (DOMAIN row) \cup {"staff_response"} |->
        IF f = "resolved" THEN TRUE
        ELSE IF f = "staff_response" THEN staff_response
        ELSE row[f]]

\* resolve_escalation: the update of the rows with .eq("id", escalation_id)
ResolveEscalation(table, escalation_id, staff_response) ==
    [j \in 1..Len(table) |->
        IF table[j].id = escalation_id
        THEN ResolvedRow(table[j], staff_response)
        ELSE table[j]]

\* The requests handled in one behaviour.
MaxStaffRequests == 2

\* POST /webhook/staff-reply: the handler from the secret check to its
\* response.  It runs without a suspension: resolve_escalation is a plain call
\* and send_whatsapp_message has no await.  An exception of either call ends
\* the request with status 500.
StaffReply(escalation_id, staff_response, customer_number, secret) ==
    /\ LoopFree
    /\ staff.count < MaxStaffRequests
    /\ \E resolve_ok \in Outcomes("resolve"), send_ok \in Outcomes("reply") :
          LET request == [escalation_id |-> escalation_id,
                          staff_response |-> staff_response,
                          customer_number |-> customer_number,
                          secret |-> secret]
              accepted == SecretAccepted(secret, settings.app_secret)
              status == IF ~accepted THEN 401
                        ELSE IF resolve_ok /\ send_ok THEN 200 ELSE 500
          IN /\ escalations' =
                   IF accepted /\ resolve_ok
                   THEN ResolveEscalation(escalations, escalation_id, staff_response)
                   ELSE escalations
             /\ staff' =
                   [count |-> staff.count + 1,
                    last  |-> [request |-> request, status |-> status],
                    sent  |-> IF accepted /\ resolve_ok /\ send_ok
                              THEN Append(staff.sent,
                                          [to |-> customer_number,
                                           body |-> Truncate(staff_response)])
                              ELSE staff.sent]
    /\ UNCHANGED <<settings, llm, rt, documents, env, conversations, session, turn,
                   loop, started>>

(***************************************************************************)
(* A direct caller of the gateway                                          *)
(***************************************************************************)
\* prefer: str | None; the empty string is falsy like None.
Preferences == {None, "", "groq", "gemini"}

LlmInvoke ==
    /\ llm.pc = "idle" \/ GwEnded(llm)
    /\ \E prefer \in Preferences, messages \in MessageLists :
          llm' = GwBegin(prefer, messages, settings.primary_llm)
    /\ UNCHANGED <<staff, settings, rt, documents, env, conversations, session,
                   escalations, turn, loop, started>>

LlmPrimaryDone ==
    /\ llm.pc = "primary"
    /\ \E out \in ProviderOutcomes : llm' = GwPrimaryDone(llm, out)
    /\ UNCHANGED <<staff, settings, rt, documents, env, conversations, session,
                   escalations, turn, loop, started>>

LlmFallbackDone ==
    /\ llm.pc = "fallback"
    /\ \E out \in ProviderOutcomes : llm' = GwFallbackDone(llm, out)
    /\ UNCHANGED <<staff, settings, rt, documents, env, conversations, session,
                   escalations, turn, loop, started>>

InitSettings == settings \in [primary_llm : Providers, app_secret : {AppSecret}]

\* No session has written anything yet.
NoSession == [session_id |-> ""]

\* The environment of the gateway and retrieval specifications: the stored
\* chunks, no turn.
EnvNoTurns ==
    [ max_turns |-> 0, max_inflight |-> 0, faults |-> {},
      user_messages |-> {}, model_texts |-> {} ]

InitStore ==
    /\ started = 0
    /\ conversations = << >>
    /\ session = NoSession
    /\ escalations = << >>
    /\ loop = 0
    /\ staff = StaffIdle

InitLLM ==
    /\ InitSettings
    /\ llm = GwIdle
    /\ rt = RtIdle
    /\ documents = ChunkIds
    /\ env = EnvNoTurns
    /\ turn = << >>
    /\ InitStore

\* Inbound messages and model outputs of the turns.
UserMessages ==
    { "Do you print business cards?", "I want to speak to a manager",
      "oui merci" }

\* The turns of a behaviour, one after the other, the I/O calls of one fault
\* scenario able to fail.
MaxTurns == 2

\* The kinds of I/O call that can raise together in one behaviour.
FaultScenarios ==
    { {"history", "embedding", "search"},
      {"provider", "send"},
      {"escalation", "staff", "send"},
      {"store"} }

EnvTurns(faults) ==
    [ max_turns |-> MaxTurns, max_inflight |-> 1, faults |-> faults,
      user_messages |-> UserMessages, model_texts |-> ModelTexts ]

Init ==
    /\ InitSettings
    /\ llm = GwIdle
    /\ rt = RtIdle
    /\ documents = {1}
    /\ env \in { EnvTurns(faults) : faults \in FaultScenarios }
    /\ turn = [t \in 1..env.max_inflight |-> TurnNew]
    /\ InitStore

Inbound == \E t \in Turns : TurnStart(t)
HistoryThread == \E t \in Turns : HistoryRead(t)
Gathered == \E t \in Turns : GatherResume(t)
Searched == \E t \in Turns : SearchDone(t)
PrimaryAnswered == \E t \in Turns : TurnPrimaryDone(t)
FallbackAnswered == \E t \in Turns : TurnFallbackDone(t)
MemoryUser == \E t \in Turns : SaveUser(t)
MemoryAssistant == \E t \in Turns : SaveAssistant(t)
MemorySession == \E t \in Turns : UpsertSession(t)

Next ==
    \/ Inbound
    \/ HistoryThread
    \/ Gathered
    \/ Searched
    \/ PrimaryAnswered
    \/ FallbackAnswered
    \/ MemoryUser
    \/ MemoryAssistant
    \/ MemorySession

Spec == Init /\ [][Next]_vars

\* A long conversation: more turns than the history limit holds, one after the
\* other, no I/O failing.
LongTurns == 6

EnvLong ==
    [ max_turns |-> LongTurns, max_inflight |-> 1, faults |-> {},
      user_messages |-> { "Do you print business cards?", "oui merci" },
      model_texts |-> { "We print business cards. For a quote call +237 696 26 26 56",
                        "Would you like to speak with our team? Reply *yes*" } ]

InitLong ==
    /\ InitSettings
    /\ llm = GwIdle
    /\ rt = RtIdle
    /\ documents = {1}
    /\ env = EnvLong
    /\ turn = [t \in 1..env.max_inflight |-> TurnNew]
    /\ InitStore

NextLong ==
    \/ Inbound
    \/ HistoryThread
    \/ Gathered
    \/ Searched
    \/ PrimaryAnswered
    \/ MemoryUser
    \/ MemoryAssistant
    \/ MemorySession

SpecLong == InitLong /\ [][NextLong]_vars

\* Turns of one session in flight together: a second inbound message is taken
\* up while the first turn is still being processed.
ConcTurns == 2

EnvConc ==
    [ max_turns |-> ConcTurns, max_inflight |-> 2, faults |-> {"store"},
      user_messages |-> { "Do you print business cards?", "oui merci" },
      model_texts |-> { "We print business cards. For a quote call +237 696 26 26 56",
                        "Would you like to speak with our team? Reply *yes*" } ]

InitConc ==
    /\ InitSettings
    /\ llm = GwIdle
    /\ rt = RtIdle
    /\ documents = {1}
    /\ env = EnvConc
    /\ turn = [t \in 1..env.max_inflight |-> TurnNew]
    /\ InitStore

SpecConc == InitConc /\ [][NextLong]_vars

\* The requested k: none, or a number.
MaxTopK == 2
TopKs == { << >> } \cup { << n >> : n \in 0..MaxTopK }

RetrieveStart ==
    \E query \in Queries, top_k \in TopKs : RetrieveCall(query, top_k)

NextRetrieve ==
    RetrieveStart \/ RetrievePrimaryDone \/ RetrieveFallbackDone \/ RetrieveSearch

SpecRetrieve == InitLLM /\ [][NextRetrieve]_vars

\* The staff-reply endpoint on a store that holds two open escalations of the
\* customer; resolve_escalation and the send may raise.
EnvStaff ==
    [ max_turns |-> 0, max_inflight |-> 0, faults |-> {"resolve", "reply"},
      user_messages |-> {}, model_texts |-> {} ]

OpenEscalations ==
    InsertEscalation(
        InsertEscalation(<< >>, SessionId, Phone, "user_requested_human",
                         "I want to speak to a manager", ""),
        SessionId, Phone, "user_requested_human", "oui merci",
        "We print business cards. For a quote call +237 696 26 26 56")

InitStaff ==
    /\ InitSettings
    /\ llm = GwIdle
    /\ rt = RtIdle
    /\ documents = ChunkIds
    /\ env = EnvStaff
    /\ turn = << >>
    /\ started = 0
    /\ conversations = << >>
    /\ session = NoSession
    /\ escalations = OpenEscalations
    /\ loop = 0
    /\ staff = StaffIdle

StaffReplied ==
    \E escalation_id \in 1..(Len(escalations) + 1), staff_response \in StaffResponses,
       customer_number \in CustomerNumbers, secret \in Secrets :
          StaffReply(escalation_id, staff_response, customer_number, secret)

NextStaff == StaffReplied

SpecStaff == InitStaff /\ [][NextStaff]_vars

NextLLM == LlmInvoke \/ LlmPrimaryDone \/ LlmFallbackDone

SpecLLM == InitLLM /\ [][NextLLM]_vars

(***************************************************************************)
(* Gateway claims                                                          *)
(***************************************************************************)
OtherProvider(p) == IF p = "groq" THEN "gemini" ELSE "groq"

\* The effective primary a call was made with.
EffectivePrimary(gw) ==
    IF gw.prefer \in Providers THEN gw.prefer ELSE settings.primary_llm

PrimaryRaised(gw) == Len(gw.outcomes) >= 1 /\ gw.outcomes[1] = Raise

\* C1: whenever the primary provider's invocation raised and the call has
\* ended, the other provider was invoked exactly once with the same message
\* list, and if that provider answered, its text is what the call returned.
C1_FallbackInvokedOnce ==
    (GwEnded(llm) /\ PrimaryRaised(llm)) =>
        /\ Len(llm.calls) = 2
        /\ llm.calls[1] = [provider |-> EffectivePrimary(llm), messages |-> llm.messages]
        /\ llm.calls[2] = [provider |-> OtherProvider(EffectivePrimary(llm)),
                           messages |-> llm.messages]
        /\ Len(llm.outcomes) = 2
        /\ llm.outcomes[2] # Raise => (llm.pc = "returned" /\ llm.result = llm.outcomes[2])

\* C2: one call makes at most two provider invocations, the first on the
\* primary, the second (if any) on the other provider, never the same provider
\* twice; and when the second invocation raised the call has raised, with no
\* further invocation.
C2_AtMostTwoInvocations ==
    /\ Len(llm.calls) <= 2
    /\ Len(llm.calls) >= 1 => llm.calls[1].provider = EffectivePrimary(llm)
    /\ Len(llm.calls) = 2 =>
          /\ llm.calls[2].provider = OtherProvider(llm.calls[1].provider)
          /\ llm.outcomes[1] = Raise
    /\ (Len(llm.outcomes) = 2 /\ llm.outcomes[2] = Raise) =>
          (llm.pc = "raised" /\ Len(llm.calls) = 2 /\ llm.result = NoText)
    /\ llm.pc = "raised" => llm.outcomes[Len(llm.outcomes)] = Raise

\* Both providers were invoked and both raised.
C2_Witness ==
    /\ llm.pc = "raised"
    /\ Len(llm.calls) = 2
    /\ llm.outcomes = << Raise, Raise >>

(***************************************************************************)
(* Retrieval claims                                                        *)
(***************************************************************************)
\* The k a caller asked for: the number given, the configured default when
\* none was given.
RequestedK(top_k) == IF top_k = << >> THEN VectorTopK ELSE top_k[1]

IdsOf(rows) == { rows[j].id : j \in 1..Len(rows) }

SimOf(rows, id) == (CHOOSE r \in { rows[j] : j \in 1..Len(rows) } : r.id = id).similarity

NonIncreasing(chunks) ==
    \A i, j \in 1..Len(chunks) : i < j => chunks[i].similarity >= chunks[j].similarity

DistinctIds(rows) ==
    \A i, j \in 1..Len(rows) : i # j => rows[i].id # rows[j].id

\* C9: a finished retrieve has returned at most the requested k chunks, in
\* non-increasing order of similarity, no chunk identifier twice.
C9_AtMostKSortedDistinct ==
    rt.pc = "done" =>
        /\ Len(rt.chunks) <= RequestedK(rt.top_k)
        /\ NonIncreasing(rt.chunks)
        /\ DistinctIds(rt.chunks)

MaxOf(a, b) == IF a >= b THEN a ELSE b

\* C10: after the searches of a retrieve, the merged rows hold every
\* identifier of the result sets exactly once, and for an identifier that both
\* result sets hold, the greater of its two similarities.
C10_DedupByMax ==
    rt.pc = "done" =>
        LET A == rt.results[1]
            B == IF Len(rt.results) = 2 THEN rt.results[2] ELSE << >>
        IN /\ DistinctIds(rt.all_results)
           /\ IdsOf(rt.all_results) = IdsOf(A) \cup IdsOf(B)
           /\ \A id \in IdsOf(rt.all_results) :
                 SimOf(rt.all_results, id) =
                    IF id \in IdsOf(A) /\ id \in IdsOf(B)
                    THEN MaxOf(SimOf(A, id), SimOf(B, id))
                    ELSE IF id \in IdsOf(A) THEN SimOf(A, id) ELSE SimOf(B, id)

\* Both queries were searched, one identifier came back from both with the
\* greater similarity in the second result set, another with the greater in
\* the first.
C10_Witness ==
    /\ rt.pc = "done"
    /\ Len(rt.results) = 2
    /\ \E id \in IdsOf(rt.results[1]) \cap IdsOf(rt.results[2]) :
          SimOf(rt.results[2], id) > SimOf(rt.results[1], id)
    /\ \E id \in IdsOf(rt.results[1]) \cap IdsOf(rt.results[2]) :
          SimOf(rt.results[1], id) > SimOf(rt.results[2], id)

(***************************************************************************)
(* Turn claims                                                             *)
(***************************************************************************)
Done(t) == turn[t].pc = "done"

\* C3 as stated: a finished turn has sent the customer exactly one message,
\* the text process_message returned when it returned, else the apology.
C3_ExactlyOneReply ==
    \A t \in Turns :
        Done(t) =>
            turn[t].delivered =
                << IF turn[t].outcome = "returned" THEN turn[t].reply ELSE Apology >>

\* C3, amended: of a finished turn's sends to the customer at most one
\* succeeded.  The first send carries the returned text when process_message
\* returned and the apology when it raised; after a failed send of the returned
\* text the apology is sent once; a failed apology is followed by nothing.
C3_AtMostOneReply ==
    \A t \in Turns :
        Done(t) =>
            LET a == turn[t].attempts
                d == turn[t].delivered
            IN /\ Len(d) <= 1
               /\ Len(a) >= 1
               /\ a[1].body = (IF turn[t].outcome = "returned"
                               THEN turn[t].reply ELSE Apology)
               /\ (turn[t].outcome = "raised" \/ a[1].ok) =>
                     /\ Len(a) = 1
                     /\ d = IF a[1].ok THEN << a[1].body >> ELSE << >>
               /\ (turn[t].outcome = "returned" /\ ~a[1].ok) =>
                     /\ Len(a) = 2
                     /\ a[2].body = Apology
                     /\ d = IF a[2].ok THEN << Apology >> ELSE << >>

\* process_message returned, the send of its text raised, and the apology went
\* out in its place.
C3_Witness ==
    \E t \in Turns :
        /\ Done(t)
        /\ turn[t].outcome = "returned"
        /\ Len(turn[t].attempts) = 2
        /\ turn[t].delivered = << Apology >>

\* The rows of the session that were stored when turn t read its history.
StoredAtRead(t) == SubSeq(SessionRows(conversations, SessionId), 1, turn[t].seen)

RECURSIVE LastStoredAssistant(_, _)
\* The index of the most recent assistant row among the first j, 0 when none.
LastStoredAssistant(rows, j) ==
    IF j = 0 THEN 0
    ELSE IF rows[j].role = "assistant" THEN j
    ELSE LastStoredAssistant(rows, j - 1)

\* The conversation's last assistant message at the read carries an offer.
LastAssistantOffered(t) ==
    LET rows == StoredAtRead(t)
        j    == LastStoredAssistant(rows, Len(rows))
    IN j # 0 /\ ContainsAny(LowerChars(Chars(rows[j].content)), offer_phrases)

Decided(t) == Done(t) /\ turn[t].gw.pc = "returned"

\* C4: a turn that reached the escalation check is escalated exactly when the
\* model's response begins with ESCALATE (any case), or the user's message
\* contains a human-request keyword, or the conversation's last assistant
\* message contains an offer phrase and the user's message an affirmative
\* token.
C4_EscalatedIff ==
    \A t \in Turns :
        Decided(t) =>
            (turn[t].needs_escalation <=>
                \/ StartsWithChars(UpperChars(Chars(turn[t].draft)),
                                   << "E", "S", "C", "A", "L", "A", "T", "E" >>)
                \/ ContainsAny(LowerChars(Chars(turn[t].user_message)),
                               explicit_human_keywords)
                \/ /\ LastAssistantOffered(t)
                   /\ ContainsAny(LowerChars(Chars(turn[t].user_message)),
                                  affirmative_words))

\* The language tag stored on the conversation's most recent assistant message
\* at the read, "en" when there is none.
LastKnownLanguage(t) ==
    LET rows == StoredAtRead(t)
        j    == LastStoredAssistant(rows, Len(rows))
    IN IF j = 0 THEN "en" ELSE rows[j].language

\* C5: an escalated turn returns the handoff message of the conversation's
\* last-known language, never the model's draft.
C5_HandoffInLastLanguage ==
    \A t \in Turns :
        (Done(t) /\ turn[t].outcome = "returned" /\ turn[t].needs_escalation) =>
            /\ turn[t].reply = (IF LastKnownLanguage(t) = "fr" THEN HandoffFr ELSE HandoffEn)
            /\ \A j \in 1..Len(turn[t].attempts) :
                  turn[t].attempts[j].body \in {HandoffEn, HandoffFr, Apology}

C7_LastEightMessages ==
    \A t \in Turns :
        turn[t].hist = "ok" =>
            LET rows == StoredAtRead(t)
                n    == Len(rows)
                from == IF n > HistoryLimit THEN n - HistoryLimit + 1 ELSE 1
                want == SubSeq(rows, from, n)
            IN /\ Len(turn[t].history) = Len(want)
               /\ \A j \in 1..Len(want) :
                     /\ turn[t].history[j].created_at = want[j].created_at
                     /\ turn[t].history[j].role = want[j].role
                     /\ turn[t].history[j].content = want[j].content

\* The stored row a fetched row was read from.
StoredRow(h) ==
    CHOOSE m \in { conversations[j] : j \in 1..Len(conversations) } :
        m.created_at = h.created_at

\* C8: the last-known language of a turn is the language tag stored on the
\* most recent assistant message of the fetched history, "en" when the history
\* holds no assistant message.
C8_LastLangFromHistory ==
    \A t \in Turns :
        turn[t].pc \in {"llm", "done"} /\ turn[t].hist = "ok" =>
            LET h == turn[t].history
                j == LastStoredAssistant(h, Len(h))
            IN turn[t].last_lang = IF j = 0 THEN "en" ELSE StoredRow(h[j]).language

(***************************************************************************)
(* Persistence and failure claims                                          *)
(***************************************************************************)
\* The reply process_message returns: the handoff message of an escalated
\* turn, the model's stripped response otherwise.
FinalReply(t) ==
    IF turn[t].needs_escalation
    THEN (IF turn[t].last_lang = "en" THEN HandoffEn ELSE HandoffFr)
    ELSE turn[t].draft

WriteFailed(t) == \E j \in 1..Len(turn[t].writes) : ~turn[t].writes[j].ok

\* C11: a persistence write that raises ends the background task: the failed
\* write is the task's last (the rest is skipped, nothing is tried again), the
\* caller of process_message has returned normally and what was sent to the
\* customer is still the reply it returned.
C11_SaveFailureContained ==
    \A t \in Turns :
        WriteFailed(t) =>
            LET w == turn[t].writes IN
            /\ ~w[Len(w)].ok
            /\ \A j \in 1..(Len(w) - 1) : w[j].ok
            /\ \A i, j \in 1..Len(w) : i # j => w[i].what # w[j].what
            /\ turn[t].bg = "failed"
            /\ loop # t
            /\ turn[t].pc = "done"
            /\ turn[t].outcome = "returned"
            /\ turn[t].attempts # << >>
            /\ turn[t].attempts[1].body = turn[t].reply
            /\ turn[t].reply = FinalReply(t)

\* The user message was stored, the assistant insert raised, and the customer
\* has the reply.
C11_Witness ==
    \E t \in Turns :
        /\ turn[t].writes = << Write("user", TRUE), Write("assistant", FALSE) >>
        /\ turn[t].bg = "failed"
        /\ turn[t].delivered = << turn[t].reply >>

\* C12: a persistence task exists only once process_message has returned its
\* final reply (the handoff message when escalated); in the state where the
\* task is scheduled the reply has been handed to the caller and no write has
\* run; the assistant message the task stores is that final reply.
C12_ScheduledAfterReply ==
    \A t \in Turns :
        /\ turn[t].pc # "done" => turn[t].bg = "none" /\ turn[t].writes = << >>
        /\ turn[t].bg # "none" =>
              /\ turn[t].outcome = "returned"
              /\ turn[t].reply = FinalReply(t)
              /\ turn[t].attempts # << >>
              /\ turn[t].attempts[1].body = turn[t].reply
        /\ turn[t].bg = "scheduled" => turn[t].writes = << >>
        /\ turn[t].bg = "assistant" =>
              LET m == conversations[Len(conversations)] IN
              /\ m.role = "assistant"
              /\ m.content = turn[t].reply
              /\ m.metadata.escalated = turn[t].needs_escalation

\* An escalated turn whose task has stored the handoff message, not the draft.
C12_Witness ==
    \E t \in Turns :
        /\ turn[t].bg = "assistant"
        /\ turn[t].needs_escalation
        /\ turn[t].draft = "We print business cards. For a quote call +237 696 26 26 56"
        /\ conversations[Len(conversations)].content = HandoffEn

\* C13: once a turn's persistence task has ended, all three of its writes are
\* stored or none is.
C13_AllOrNothing ==
    \A t \in Turns :
        turn[t].bg \in {"done", "failed"} =>
            LET stored == { j \in 1..Len(turn[t].writes) : turn[t].writes[j].ok }
            IN Cardinality(stored) \in {0, 3}

\* C13, amended: once a turn's persistence task has ended, the writes it
\* stored are those before the first write that raised, in the order user
\* message, assistant message, session upsert: all three when none raised;
\* the session is never upserted for a turn whose two messages are not both
\* stored, while a user message can stay stored without its assistant message.
C13_StoredPrefix ==
    \A t \in Turns :
        turn[t].bg \in {"done", "failed"} =>
            LET w    == turn[t].writes
                what == << "user", "assistant", "session" >>
            IN /\ Len(w) \in 1..3
               /\ \A j \in 1..Len(w) : w[j].what = what[j]
               /\ \A j \in 1..(Len(w) - 1) : w[j].ok
               /\ w[Len(w)].ok <=> (turn[t].bg = "done" /\ Len(w) = 3)
               /\ turn[t].bg = "done" =>
                     /\ session.state.last_message = turn[t].user_message
                     /\ session.state.last_response = turn[t].reply

\* The task ended with the turn's user message stored and nothing else.
C13_Witness ==
    \E t \in Turns :
        /\ turn[t].bg = "failed"
        /\ Len(turn[t].writes) = 2
        /\ conversations # << >>
        /\ conversations[Len(conversations)].role = "user"
        /\ conversations[Len(conversations)].content = turn[t].user_message

\* Every provider invocation of the turn's gateway call raised.
ProvidersFailed(t) ==
    /\ turn[t].gw.outcomes # << >>
    /\ turn[t].gw.outcomes[Len(turn[t].gw.outcomes)] = Raise

\* C14: a turn whose history fetch, embedding or provider invocations failed
\* ends with process_message raising: no reply text, no persistence task, the
\* apology as the only text sent; after a history or embedding failure neither
\* the search nor the gateway was called.
C14_FailurePropagates ==
    \A t \in Turns :
        (Done(t) /\ (turn[t].hist = "raised" \/ turn[t].embed = "raised"
                        \/ ProvidersFailed(t))) =>
            /\ turn[t].outcome = "raised"
            /\ turn[t].reply = ""
            /\ turn[t].bg = "none"
            /\ Len(turn[t].attempts) = 1
            /\ turn[t].attempts[1].body = Apology
            /\ (turn[t].hist = "raised" \/ turn[t].embed = "raised") =>
                  /\ turn[t].search = "none"
                  /\ turn[t].gw = GwIdle

\* Primary and fallback both raised and the turn failed.
C14_Witness ==
    \E t \in Turns :
        /\ Done(t)
        /\ turn[t].gw.outcomes = << Raise, Raise >>
        /\ turn[t].outcome = "raised"

\* C15: when the staff notification of an escalated turn raises, the turn
\* returns the handoff message, its Escalation record is in the table, its
\* persistence task was scheduled, and the notification was sent once only.
C15_NotifyFailureTolerated ==
    \A t \in Turns :
        (Done(t) /\ turn[t].staff_sends # << >> /\ ~turn[t].staff_sends[1]) =>
            /\ turn[t].staff_sends = << FALSE >>
            /\ turn[t].outcome = "returned"
            /\ turn[t].reply \in {HandoffEn, HandoffFr}
            /\ turn[t].escalation_id \in 1..Len(escalations)
            /\ escalations[turn[t].escalation_id].last_user_msg = turn[t].user_message
            /\ turn[t].bg # "none"

\* The notification raised and the customer received the handoff message.
C15_Witness ==
    \E t \in Turns :
        /\ Done(t)
        /\ turn[t].staff_sends = << FALSE >>
        /\ turn[t].delivered = << HandoffEn >>
        /\ turn[t].bg = "scheduled"

\* The characters of the gateway's output without leading and trailing space.
StrippedOutput(gw) == RStripChars(LStripChars(Chars(gw.result)))

\* The gateway call of expand_query returned a usable rephrasing.
UsableRephrasing(gw) ==
    /\ gw.pc = "returned"
    /\ StrippedOutput(gw) # << >>
    /\ Len(StrippedOutput(gw)) < 300

\* C16: expand_query returns the stripped output of the gateway exactly when
\* the gateway call returned and that output is non-empty and shorter than 300
\* characters; otherwise it returns the query, and retrieve then issues one
\* similarity search, with the query.
C16_ExpansionOrOriginal ==
    rt.pc \in {"search", "done"} =>
        /\ GwEnded(rt.gw)
        /\ IF UsableRephrasing(rt.gw)
           THEN Chars(rt.expanded) = StrippedOutput(rt.gw)
           ELSE /\ rt.expanded = rt.query
                /\ rt.queries = << rt.query >>
                /\ rt.pc = "done" =>
                      /\ Len(rt.searches) = 1
                      /\ rt.searches[1].query = rt.query

\* The gateway returned 300 characters: one search, with the query.
C16_Witness ==
    /\ rt.pc = "done"
    /\ rt.gw.pc = "returned"
    /\ rt.gw.result = LongText
    /\ Len(rt.searches) = 1
    /\ rt.searches[1].query = rt.query

\* C17: when the vector search backend fails, similarity_search hands back
\* the empty sequence and the turn goes on: the context is the "no relevant
\* information" text, the gateway is called, and the turn returns a reply
\* unless generation or the escalation insert fails later.
C17_SearchFailureDegrades ==
    \A t \in Turns :
        turn[t].search # "raised" /\
        (turn[t].search = "failed" =>
            /\ turn[t].pc \in {"llm", "done"}
            /\ turn[t].gw.calls # << >>
            /\ turn[t].pc = "llm" =>
                  /\ turn[t].raw_chunks = << >>
                  /\ turn[t].context = "No relevant information found in knowledge base."
            /\ (turn[t].pc = "done" /\ turn[t].outcome = "raised") =>
                  \/ turn[t].gw.pc = "raised"
                  \/ turn[t].needs_escalation /\ turn[t].escalation_id = 0
            /\ (turn[t].pc = "done" /\ turn[t].outcome = "returned") =>
                  turn[t].reply = FinalReply(t))

\* The search failed and the customer received the model's answer.
C17_Witness ==
    \E t \in Turns :
        /\ Done(t)
        /\ turn[t].search = "failed"
        /\ turn[t].outcome = "returned"
        /\ turn[t].delivered = << "We print business cards. For a quote call +237 696 26 26 56" >>

\* C18: the writes of a turn's persistence task happen in the order user
\* message, assistant message, session upsert, each only after the ones before
\* it were stored; a task whose writes all succeed has inserted its two
\* messages, user then assistant, and upserted the session once.
C18_WriteOrder ==
    \A t \in Turns :
        LET w == turn[t].writes
            n == Len(conversations)
        IN /\ Len(w) <= 3
           /\ \A j \in 1..Len(w) :
                 /\ w[j].what = << "user", "assistant", "session" >>[j]
                 /\ \A i \in 1..(j - 1) : w[i].ok
           /\ turn[t].bg = "done" <=> (Len(w) = 3 /\ w[3].ok)
           /\ turn[t].bg = "user" =>
                 /\ w = << Write("user", TRUE) >>
                 /\ n >= 1
                 /\ conversations[n].role = "user"
                 /\ conversations[n].content = turn[t].user_message
           /\ turn[t].bg = "assistant" =>
                 /\ w = << Write("user", TRUE), Write("assistant", TRUE) >>
                 /\ n >= 2
                 /\ conversations[n - 1].role = "user"
                 /\ conversations[n - 1].content = turn[t].user_message
                 /\ conversations[n].role = "assistant"
                 /\ conversations[n].content = turn[t].reply

\* A task that has made its three writes.
C18_Witness ==
    \E t \in Turns :
        /\ turn[t].bg = "done"
        /\ turn[t].writes =
              << Write("user", TRUE), Write("assistant", TRUE), Write("session", TRUE) >>
        /\ Len(conversations) = 2
        /\ session.state.last_message = turn[t].user_message

\* C19: a turn's steps are ordered.  While the two fetches are awaited both
\* have been started; the search begins only with both completed; the gateway
\* is called only after the search has returned; the escalation decision is
\* made only after the gateway has returned; the persistence task exists only
\* after the escalation step has ended.
C19_StepOrder ==
    \A t \in Turns :
        /\ turn[t].pc = "gather" =>
              /\ turn[t].hist # "none"
              /\ turn[t].embed = "pending"
        /\ turn[t].pc \in {"search", "llm"} =>
              /\ turn[t].hist = "ok"
              /\ turn[t].embed = "ok"
        /\ turn[t].search # "none" => turn[t].hist = "ok" /\ turn[t].embed = "ok"
        /\ turn[t].pc = "search" => turn[t].search = "none" /\ turn[t].gw = GwIdle
        /\ turn[t].gw # GwIdle => turn[t].search \in {"ok", "failed"}
        /\ turn[t].pc = "llm" =>
              /\ ~GwEnded(turn[t].gw)
              /\ turn[t].draft = ""
              /\ ~turn[t].needs_escalation
              /\ turn[t].escalation_id = 0
        /\ (turn[t].needs_escalation \/ turn[t].draft # "") =>
              turn[t].gw.pc = "returned"
        /\ turn[t].staff_sends # << >> =>
              turn[t].needs_escalation /\ turn[t].escalation_id >= 1
        /\ turn[t].bg # "none" =>
              /\ turn[t].pc = "done"
              /\ turn[t].gw.pc = "returned"
              /\ turn[t].needs_escalation =>
                    turn[t].escalation_id >= 1 /\ turn[t].staff_sends # << >>

\* An escalated turn that went through every step and scheduled its task.
C19_Witness ==
    \E t \in Turns :
        /\ turn[t].bg = "scheduled"
        /\ turn[t].hist = "ok" /\ turn[t].embed = "ok" /\ turn[t].search = "ok"
        /\ turn[t].gw.pc = "returned"
        /\ turn[t].needs_escalation
        /\ turn[t].escalation_id = 1

\* The session row an upsert of turn t writes.
SessionOf(t) ==
    [session_id |-> SessionId, phone_number |-> Phone, language |-> turn[t].lang,
     state |-> [last_message |-> turn[t].user_message,
                last_response |-> turn[t].reply]]

\* The step is the successful session upsert of turn t's task.
Upserts(t) ==
    /\ turn[t].bg = "assistant"
    /\ turn'[t].bg = "done"

\* C20: with turns of one session in flight together, every session upsert
\* that succeeds replaces the stored row by the upserting turn's language and
\* last-turn state, whatever the row held and whichever reply went out last,
\* and nothing else changes the row: the row stored in the end is that of the
\* task that upserted last.
C20_LastUpsertWins ==
    [][ /\ \A t \in Turns : Upserts(t) => session' = SessionOf(t)
        /\ session' # session => \E t \in Turns : Upserts(t) ]_vars

\* Two turns that both read the history before either was stored; both tasks
\* have ended, and the row holds the state of the turn stored last, which is
\* not the state of the other.
C20_Witness ==
    \E t, u \in Turns :
        /\ t # u
        /\ turn[t].bg = "done" /\ turn[u].bg = "done"
        /\ turn[t].seen = 0 /\ turn[u].seen = 0
        /\ Len(conversations) = 4
        /\ conversations[1].content = turn[t].user_message
        /\ conversations[3].content = turn[u].user_message
        /\ turn[t].user_message # turn[u].user_message
        /\ session = SessionOf(u)

(***************************************************************************)
(* Escalation rule, retrieval path and side-effect claims                  *)
(***************************************************************************)
\* The turn is escalated by the rule "previous offer + affirmative", as the
\* code evaluates it on the history it fetched.
EscalatedByOfferRule(t) ==
    BotOffered(turn[t].history) /\ UserSaidYes(turn[t].user_message)

\* C21: a turn that reached the escalation check is escalated by the rule
\* "previous offer + affirmative" exactly when the assistant message of the
\* session's immediately preceding turn -- the most recent assistant message
\* stored when the turn read its history -- contains an offer phrase and the
\* user's message contains an affirmative token, however many messages the
\* session holds.
C21_OfferRuleOnPrecedingTurn ==
    \A t \in Turns :
        Decided(t) =>
            (EscalatedByOfferRule(t) <=>
                /\ LastAssistantOffered(t)
                /\ ContainsAny(LowerChars(Chars(turn[t].user_message)),
                               affirmative_words))

\* What expand_query can return for a query: the query itself, or a rephrasing
\* of the gateway that it accepts.
PossibleExpansions(query) ==
    {query} \cup
    { ExpandResult(query, [pc |-> "returned", result |-> r]) : r \in RephraseTexts }

\* The searches retrieve(query) makes when the expansion is `expanded`: one per
\* deduplicated query, each for k rows above the floor 0.15.
RetrieveSearches(query, expanded) ==
    LET queries == DedupQueries(query, expanded) IN
    [ j \in 1..Len(queries) |->
        [query |-> queries[j], top_k |-> EffectiveK(<< >>),
         threshold |-> RetrieveThreshold] ]

\* C22: the chunks in a turn's generation prompt are those of retrieve for the
\* raw user text: the searches the turn made are retrieve's -- one per accepted
\* query, for k rows above the floor 0.15 -- and the chunks are at most k rows
\* above that floor.
C22_PromptChunksFromRetrieve ==
    \A t \in Turns :
        turn[t].pc = "llm" =>
            /\ \E expanded \in PossibleExpansions(turn[t].user_message) :
                  turn[t].searches = RetrieveSearches(turn[t].user_message, expanded)
            /\ Len(turn[t].raw_chunks) <= EffectiveK(<< >>)
            /\ \A j \in 1..Len(turn[t].raw_chunks) :
                  turn[t].raw_chunks[j].similarity > RetrieveThreshold

\* The turn got as far as step 6, the gateway call.
ReachedGeneration(t) == turn[t].search \in {"ok", "failed"}

\* C23 as stated: every finished turn has invoked the gateway exactly once.
C23_ExactlyOneGatewayCall ==
    \A t \in Turns : Done(t) => turn[t].gw_calls = 1

\* C23, amended: a turn never invokes the gateway more than once and that
\* call never makes more than two provider calls; a turn that reached the
\* generation step has invoked it exactly once, escalated or not; a turn that
\* failed before that step has not invoked it.
C23_AtMostOneGatewayCall ==
    \A t \in Turns :
        /\ turn[t].gw_calls <= 1
        /\ Len(turn[t].gw.calls) <= 2
        /\ turn[t].gw_calls = 0 <=> turn[t].gw = GwIdle
        /\ ReachedGeneration(t) <=> turn[t].gw_calls = 1
        /\ (Done(t) /\ turn[t].outcome = "returned") => turn[t].gw_calls = 1
        /\ turn[t].needs_escalation => turn[t].gw_calls = 1

\* An escalated turn whose one gateway call made two provider calls.
C23_Witness ==
    \E t \in Turns :
        /\ Done(t) /\ turn[t].outcome = "returned" /\ turn[t].needs_escalation
        /\ turn[t].gw_calls = 1
        /\ Len(turn[t].gw.calls) = 2

\* The tag the fixed keyword match gives each text: "fr" exactly when the
\* lower-cased text contains one of the French keywords.
KeywordTagOf ==
    [s \in AllTexts |->
        IF ContainsAny(LowerChars(Chars(s)), french_words) THEN "fr" ELSE "en"]

KeywordTag(user_message) == KeywordTagOf[user_message]

\* C24: the language tag persisted for a turn is a function of the user's
\* message alone -- "fr" exactly when the lower-cased message contains a French
\* keyword, else "en": the tag of a task's turn, of every stored user message,
\* of the assistant message stored after it, and of the session row.
C24_TagFromUserMessageOnly ==
    /\ \A t \in Turns :
          turn[t].bg # "none" => turn[t].lang = KeywordTag(turn[t].user_message)
    /\ \A j \in 1..Len(conversations) :
          IF conversations[j].role = "user"
          THEN conversations[j].language = KeywordTag(conversations[j].content)
          ELSE /\ j > 1
               /\ conversations[j - 1].role = "user"
               /\ conversations[j].language = KeywordTag(conversations[j - 1].content)
    /\ session # NoSession =>
          session.language = KeywordTag(session.state.last_message)

\* Two stored turns with the same user message, different replies and
\* different escalation outcomes, and the same tag on all four messages.
C24_Witness ==
    /\ Len(conversations) = 4
    /\ conversations[1].content = "oui merci"
    /\ conversations[3].content = "oui merci"
    /\ conversations[2].role = "assistant" /\ conversations[4].role = "assistant"
    /\ conversations[2].content # conversations[4].content
    /\ conversations[2].metadata.escalated # conversations[4].metadata.escalated
    /\ \A j \in 1..4 : conversations[j].language = "fr"

\* What the three rules see in each text: the sentinel at the start of its
\* upper-cased form, and a human-request keyword, an offer phrase, an
\* affirmative token in its lower-cased form.
RulesOf ==
    [s \in AllTexts |->
        [sentinel    |-> StartsWithChars(UpperChars(Chars(s)),
                                         << "E", "S", "C", "A", "L", "A", "T", "E" >>),
         keyword     |-> ContainsAny(LowerChars(Chars(s)), explicit_human_keywords),
         offer       |-> ContainsAny(LowerChars(Chars(s)), offer_phrases),
         affirmative |-> ContainsAny(LowerChars(Chars(s)), affirmative_words)]]

\* C25: the escalation decision of a turn is determined by the turn's model
\* response, its user message and the history it fetched: it is the
\* disjunction of the three rules evaluated on them.  A turn whose history
\* ends with the handoff message of an escalated turn, whose response has no
\* sentinel and whose message has no keyword, is not escalated.
C25_DecisionFromTurnInputsOnly ==
    \A t \in Turns :
        Decided(t) =>
            LET h        == turn[t].history
                j        == LastStoredAssistant(h, Len(h))
                sentinel == RulesOf[turn[t].draft].sentinel
                keyword  == RulesOf[turn[t].user_message].keyword
                offered  == j # 0 /\ RulesOf[h[j].content].offer
                yes      == RulesOf[turn[t].user_message].affirmative
            IN /\ turn[t].needs_escalation <=> (sentinel \/ keyword \/ (offered /\ yes))
               /\ (/\ j # 0
                   /\ h[j].content \in {HandoffEn, HandoffFr}
                   /\ ~sentinel
                   /\ ~keyword) => ~turn[t].needs_escalation

\* The turn after an escalated one: an Escalation record exists, the history
\* ends with the handoff message, the user answers "oui merci", the model
\* gives a plain answer, and the turn is not escalated.
C25_Witness ==
    \E t \in Turns :
        /\ Decided(t)
        /\ Len(escalations) = 1
        /\ Len(turn[t].history) = 2
        /\ turn[t].history[2].content = HandoffEn
        /\ turn[t].user_message = "oui merci"
        /\ turn[t].draft = "We print business cards. For a quote call +237 696 26 26 56"
        /\ ~turn[t].needs_escalation

\* The _save_memory task of turn t is between its first write and its end.
MidWrites(t) == turn[t].bg \in {"user", "assistant"}

\* C26: the writes of one persistence task are not interleaved with those of
\* another.  At most one task is between its first write and its end, and it
\* holds the event loop; what it has written so far are the last rows of the
\* log; and every assistant message of the log directly follows a user message.
C26_WritesNotInterleaved ==
    /\ \A t, u \in Turns : (MidWrites(t) /\ MidWrites(u)) => t = u
    /\ \A t \in Turns : MidWrites(t) <=> loop = t
    /\ \A t \in Turns :
          LET n == Len(conversations) IN
          /\ turn[t].bg = "user" =>
                /\ n >= 1
                /\ conversations[n].role = "user"
                /\ conversations[n].content = turn[t].user_message
          /\ turn[t].bg = "assistant" =>
                /\ n >= 2
                /\ conversations[n - 1].role = "user"
                /\ conversations[n - 1].content = turn[t].user_message
                /\ conversations[n].role = "assistant"
                /\ conversations[n].content = turn[t].reply
    /\ \A j \in 1..Len(conversations) :
          conversations[j].role = "assistant" =>
              j > 1 /\ conversations[j - 1].role = "user"

\* Two persistence tasks exist at once: one has made its first write and the
\* other is waiting to run.
C26_Witness ==
    \E t, u \in Turns :
        /\ t # u
        /\ turn[t].bg = "user"
        /\ loop = t
        /\ turn[u].bg = "scheduled"
        /\ conversations[Len(conversations)].content = turn[t].user_message

\* C27: what a turn's persistence task stores is what the turn returned.  The
\* assistant message it inserted holds the reply process_message returned --
\* the text handed to the customer send, the handoff message and not the draft
\* when the turn is escalated -- and its escalated flag is the turn's decision;
\* the session row it upserted holds the same reply as last_response.
C27_StoredReplyIsReturnedReply ==
    \A t \in Turns :
        LET n == Len(conversations) IN
        /\ turn[t].bg \in {"assistant", "done"} =>
              /\ turn[t].outcome = "returned"
              /\ n >= 2
              /\ conversations[n].role = "assistant"
              /\ conversations[n].content = turn[t].reply
              /\ conversations[n].content =
                    (IF turn[t].needs_escalation
                     THEN HandoffMessage(turn[t].last_lang) ELSE turn[t].draft)
              /\ turn[t].attempts[1].body = Truncate(conversations[n].content)
              /\ conversations[n].metadata.escalated = turn[t].needs_escalation
        /\ turn[t].bg = "done" =>
              /\ session.state.last_response = turn[t].reply
              /\ session.state.last_response = conversations[n].content

\* An escalated turn whose model draft was a plain answer: the task has ended,
\* the stored assistant message and last_response are the handoff message, and
\* the message is flagged escalated.
C27_Witness ==
    \E t \in Turns :
        /\ turn[t].bg = "done"
        /\ turn[t].needs_escalation
        /\ turn[t].draft = "We print business cards. For a quote call +237 696 26 26 56"
        /\ conversations[Len(conversations)].content = HandoffEn
        /\ conversations[Len(conversations)].metadata.escalated
        /\ session.state.last_response = HandoffEn

\* The step ends turn t before its gateway call has returned a response.
FailsBeforeGeneration(t) ==
    /\ turn[t].pc # "done"
    /\ turn'[t].pc = "done"
    /\ turn'[t].gw.pc # "returned"

\* C28: the step that ends a turn before generation has returned -- the
\* history fetch, the embedding or both providers raised -- creates no
\* Escalation record, sends no staff notification, schedules no persistence
\* task and writes nothing to the store, whatever the user's message.
C28_NoEffectsBeforeGeneration ==
    [][ \A t \in Turns :
          FailsBeforeGeneration(t) =>
             /\ turn'[t].outcome = "raised"
             /\ escalations' = escalations
             /\ turn'[t].escalation_id = 0
             /\ turn'[t].staff_sends = << >>
             /\ turn'[t].notify = "none"
             /\ turn'[t].bg = "none"
             /\ conversations' = conversations
             /\ session' = session ]_vars

\* A turn whose message asks for a manager and whose two provider calls both
\* raised: it ended with nothing created, sent to staff or scheduled.
C28_Witness ==
    \E t \in Turns :
        /\ Done(t)
        /\ turn[t].user_message = "I want to speak to a manager"
        /\ turn[t].gw.pc = "raised"
        /\ Len(turn[t].gw.calls) = 2
        /\ escalations = << >>
        /\ turn[t].staff_sends = << >>
        /\ turn[t].bg = "none"

\* C29: a turn that decided to escalate either has its Escalation record, or
\* the creation raised and the whole turn failed: process_message raised, no
\* staff notification was attempted, no handoff message was returned or sent
\* -- the caller sent the apology -- and no persistence task exists.
C29_EscalationFailureFailsTurn ==
    \A t \in Turns :
        (Decided(t) /\ turn[t].needs_escalation) =>
            IF turn[t].escalation_id \in 1..Len(escalations)
            THEN turn[t].outcome = "returned"
            ELSE /\ turn[t].escalation_id = 0
                 /\ turn[t].outcome = "raised"
                 /\ turn[t].staff_sends = << >>
                 /\ turn[t].notify = "none"
                 /\ turn[t].reply = ""
                 /\ Len(turn[t].attempts) = 1
                 /\ turn[t].attempts[1].body = Apology
                 /\ turn[t].bg = "none"
                 /\ turn[t].writes = << >>

\* The insert of the Escalation record raised in a turn the user's keyword had
\* escalated: the table is empty and the customer was sent the apology.
C29_Witness ==
    \E t \in Turns :
        /\ Decided(t)
        /\ turn[t].needs_escalation
        /\ turn[t].user_message = "I want to speak to a manager"
        /\ turn[t].outcome = "raised"
        /\ escalations = << >>
        /\ turn[t].delivered = << Apology >>
        /\ turn[t].bg = "none"

\* The position of a step in a turn's steps, 0 when it was not taken.
StepIndex(steps, step) ==
    IF \E j \in 1..Len(steps) : steps[j] = step
    THEN CHOOSE j \in 1..Len(steps) : steps[j] = step
    ELSE 0

\* The position of the staff notification attempt, sent or raised.
NotifyIndex(steps) ==
    IF StepIndex(steps, "notify_staff") # 0
    THEN StepIndex(steps, "notify_staff")
    ELSE StepIndex(steps, "notify_staff raised")

HandlesStaffReply == staff'.count = staff.count + 1

\* C31: a staff-reply request whose secret is not the configured application
\* secret is answered 401 and changes nothing: no Escalation record is
\* resolved or altered and no message is sent.  Only a request with the
\* matching secret changes a record or sends; one that is answered 200 has
\* marked the records of its identifier resolved with the staff response and
\* sent that response to the customer number it names.
C31_WrongSecretRejected ==
    [][ HandlesStaffReply =>
          LET r == staff'.last.request IN
          /\ r.secret # settings.app_secret =>
                /\ staff'.last.status = 401
                /\ escalations' = escalations
                /\ staff'.sent = staff.sent
          /\ (escalations' # escalations \/ staff'.sent # staff.sent) =>
                r.secret = settings.app_secret
          /\ staff'.last.status = 200 =>
                /\ r.secret = settings.app_secret
                /\ staff'.sent = Append(staff.sent, [to |-> r.customer_number,
                                                     body |-> r.staff_response])
                /\ \A j \in 1..Len(escalations') :
                      escalations'[j].id = r.escalation_id =>
                          /\ escalations'[j].resolved
                          /\ escalations'[j].staff_response = r.staff_response
          /\ UNCHANGED <<conversations, session, turn>> ]_vars

\* A request for an open escalation that carried the secret in another case:
\* it was answered 401, both records are still open and nothing was sent.
C31_Witness ==
    /\ staff.count = 1
    /\ staff.last.status = 401
    /\ staff.last.request.secret = "Changeme"
    /\ staff.last.request.escalation_id = 1
    /\ escalations = OpenEscalations
    /\ \A j \in 1..Len(escalations) : ~escalations[j].resolved
    /\ staff.sent = << >>

====
